---- MODULE Spec2Model ----
(***************************************************************************)
(* Maxwell-Demon: the windowed metrics engine (analyzer.py, metrics.py),   *)
(* the dual-reference tournament (tournament.py) and the reference-table   *)
(* builders (metrics.py, scripts/prepare_resources.py).                    *)
(*                                                                         *)
(* Numbers.  A probability that is only ever compared, clipped and passed  *)
(* to a logarithm (reference-table values, unknown_prob, EPSILON, the      *)
(* empirical c/total of a window) is held as its base-2 logarithm in       *)
(* hundredths of a bit ("lg"); order is preserved, so np.clip and max act  *)
(* on lg exactly as they act on the float.  A log base is held in          *)
(* hundredths (200 is 2.0, 50 is 0.5, 272 is math.e).  Every computed      *)
(* metric is an exact rational [n, d] in lowest terms with d > 0; float    *)
(* rounding is not modelled.                                               *)
(***************************************************************************)
EXTENDS Integers, Sequences, FiniteSets, TLC

\* ------------------------------------------------------------------ bounds
\* longest token sequence handed to the analyzer
MaxLen == 4
\* largest window_size and step tried
MaxParam == 3

\* --------------------------------------------------------------- helpers
\* The element of a one-element set.  The({e(x) : x \in {v}}) is e with x
\* bound to the value of v, which is evaluated once (a LET is expanded at
\* each of its uses).
The(S) == CHOOSE out \in S : TRUE

\* ------------------------------------------------------- rational numbers
Abs(x) == IF x < 0 THEN -x ELSE x

RECURSIVE Gcd(_, _)
Gcd(a, b) == IF b = 0 THEN a ELSE Gcd(b, a % b)

RatOfValues(n, d) ==
  LET g == Gcd(Abs(n), Abs(d))
      s == IF d < 0 THEN -1 ELSE 1
  IN [n |-> (s * n) \div g, d |-> (s * d) \div g]

\* the rational n / d in lowest terms, d # 0
Rat(n, d) == The({RatOfValues(p[1], p[2]) : p \in {<<n, d>>}})

Lcm(a, b) == (a \div Gcd(a, b)) * b

RatAddValues(x, y) ==
  The({Rat(x.n * (l \div x.d) + y.n * (l \div y.d), l) : l \in {Lcm(x.d, y.d)}})
RatAdd(x, y) == The({RatAddValues(p[1], p[2]) : p \in {<<x, y>>}})

RatNeg(x) == [n |-> -x.n, d |-> x.d]
RatSub(x, y) == RatAdd(x, RatNeg(y))
RatMul(x, y) == The({Rat(p[1].n * p[2].n, p[1].d * p[2].d) : p \in {<<x, y>>}})
RatDivInt(x, k) == The({Rat(v.n, v.d * k) : v \in {x}})
RatGeq0(x) == x.n >= 0
RatLeq0(x) == x.n <= 0
Zero == Rat(0, 1)

RECURSIVE RatSum(_)
RatSum(s) == IF Len(s) = 0 THEN Zero ELSE RatAdd(Head(s), RatSum(Tail(s)))

\* np.mean
NpMean(s) == RatDivInt(RatSum(s), Len(s))

\* np.var: the population variance, mean(abs(x - x.mean()) ** 2)
NpVar(s) ==
  The({NpMean([i \in 1..Len(s) |->
                 The({RatMul(dev, dev) : dev \in {RatSub(s[i], m)}})])
         : m \in {NpMean(s)}})

\* np.clip
NpClip(x, lo, hi) == IF x < lo THEN lo ELSE IF x > hi THEN hi ELSE x

\* ------------------------------------------------------------- logarithms
\* 100 * log2(k), rounded, for the small naturals a window's counts can be
Log2c(k) ==
  CASE k = 1 -> 0   [] k = 2 -> 100 [] k = 3 -> 158 [] k = 4 -> 200
    [] k = 5 -> 232 [] k = 6 -> 258 [] k = 7 -> 281 [] k = 8 -> 300

\* math.e, in hundredths
MATH_E == 272

\* 100 * log2(log_base) of a log base given in hundredths: math.log(log_base)
MathLog(log_base) ==
  CASE log_base = 25 -> -200 [] log_base = 50 -> -100 [] log_base = 200 -> 100
    [] log_base = MATH_E -> 144 [] log_base = 400 -> 200

\* EPSILON = 1e-10 as lg: 100 * log2(1e-10)
EPSILON == -3322
\* the float 1.0 as lg
ONE == 0

\* --------------------------------------------------- results and raising
Ok(v) == [err |-> "none", val |-> v]
Raise(msg) == [err |-> msg, val |-> <<>>]

ErrLogBase == "log_base must be > 0 and != 1"
ErrCompression == "compression algorithm must be one of: lzma, gzip, bz2, zlib"
ErrWindow == "window_size and step must be positive integers"
ErrRefDict == "ref_dict is required for diff mode"
ErrMode == "mode must be 'raw' or 'diff'"
ErrRefDicts == "ref_dicts is required for diff batch mode"
ErrMismatch == "Mismatched window counts between reference analyses"
ErrNotFound == "Input path not found"
ErrSmoothing == "smoothing_k must be >= 0"

\* ---------------------------------------------------------------- tokens
Tokens == {"a", "b"}
TokenSeqs == UNION {[1..n -> Tokens] : n \in 0..MaxLen}

SeqRange(s) == {s[i] : i \in 1..Len(s)}
\* Counter(tokens)[t]
Count(s, t) == Cardinality({i \in 1..Len(s) : s[i] = t})

\* ------------------------------------------------------------ metrics.py
\* _validate_log_base: the message it raises with, or "none"
validate_log_base(log_base) ==
  IF log_base <= 0 \/ log_base = 100 THEN ErrLogBase ELSE "none"

RECURSIVE RatSumOver(_, _)
RatSumOver(f, S) ==
  IF S = {} THEN Zero
  ELSE LET x == CHOOSE y \in S : TRUE
       IN RatAdd(f[x], RatSumOver(f, S \ {x}))

\* scipy_entropy(probs, base): -sum(p * ln p) / ln(base), over the window's
\* distinct tokens; p = c / total is already normalised, lg is its logarithm
scipy_entropy(tokens, lg, log_base) ==
  LET terms == [t \in SeqRange(tokens) |->
                  Rat(Count(tokens, t) * (-lg[t]), Len(tokens))]
  IN The({Rat(total.n, total.d * MathLog(log_base))
            : total \in {RatSumOver(terms, SeqRange(tokens))}})

calculate_shannon_entropy(tokens, log_base) ==
  IF validate_log_base(log_base) # "none" THEN Raise(validate_log_base(log_base))
  ELSE IF tokens = <<>> THEN Ok(Zero)
  ELSE LET total == Len(tokens)
           probs == [t \in SeqRange(tokens) |->
                       NpClip(Log2c(Count(tokens, t)) - Log2c(total), EPSILON, ONE)]
       IN Ok(scipy_entropy(tokens, probs, log_base))

\* prob_lookup.get(t, unknown_prob)
DictGet(prob_lookup, t, default) ==
  IF t \in DOMAIN prob_lookup THEN prob_lookup[t] ELSE default

\* -np.log(probs) and -np.log(probs) / math.log(log_base): the same rational
NegLogOver(p, log_base) == Rat(-p, MathLog(log_base))


\* a token absent from the table gets EPSILON, whatever unknown_prob is
surprisal_from_probs_fixed_floor(tokens, prob_lookup, log_base, unknown_prob) ==
  IF validate_log_base(log_base) # "none" THEN Raise(validate_log_base(log_base))
  ELSE IF tokens = <<>> THEN Ok(<<>>)
  ELSE LET probs == [i \in 1..Len(tokens) |->
                       DictGet(prob_lookup, tokens[i], EPSILON)]
           clipped == [i \in 1..Len(tokens) |-> NpClip(probs[i], EPSILON, ONE)]
       IN Ok([i \in 1..Len(tokens) |-> NegLogOver(clipped[i], log_base)])

\* the clip as max(p, EPSILON) only, with no upper bound of 1.0
surprisal_from_probs_max_only(tokens, prob_lookup, log_base, unknown_prob) ==
  IF validate_log_base(log_base) # "none" THEN Raise(validate_log_base(log_base))
  ELSE IF tokens = <<>> THEN Ok(<<>>)
  ELSE LET probs == [i \in 1..Len(tokens) |->
                       DictGet(prob_lookup, tokens[i], unknown_prob)]
           clipped == [i \in 1..Len(tokens) |->
                         IF probs[i] < EPSILON THEN EPSILON ELSE probs[i]]
       IN Ok([i \in 1..Len(tokens) |-> NegLogOver(clipped[i], log_base)])

surprisal_from_probs(tokens, prob_lookup, log_base, unknown_prob) ==
  IF validate_log_base(log_base) # "none" THEN Raise(validate_log_base(log_base))
  ELSE IF tokens = <<>> THEN Ok(<<>>)
  ELSE LET probs == [i \in 1..Len(tokens) |->
                       DictGet(prob_lookup, tokens[i], unknown_prob)]
           clipped == [i \in 1..Len(tokens) |-> NpClip(probs[i], EPSILON, ONE)]
       IN Ok([i \in 1..Len(tokens) |-> NegLogOver(clipped[i], log_base)])

\* calculate_surprisal: the surprisal of one token; p = max(p, EPSILON)
calculate_surprisal(token, ref_dict, log_base, unknown_prob) ==
  IF validate_log_base(log_base) # "none" THEN Raise(validate_log_base(log_base))
  ELSE LET p == DictGet(ref_dict, token, unknown_prob)
       IN Ok(NegLogOver(IF p > EPSILON THEN p ELSE EPSILON, log_base))

entropy_variance_from_tokens(tokens, log_base) ==
  IF tokens = <<>> THEN Ok(Zero)
  ELSE LET total == Len(tokens)
           prob_lookup == [t \in SeqRange(tokens) |->
                             Log2c(Count(tokens, t)) - Log2c(total)]
       IN The({IF surprisals.err # "none" THEN surprisals
               ELSE IF Len(surprisals.val) = 0 THEN Ok(Zero)
               ELSE Ok(NpVar(surprisals.val))
                 : surprisals \in {surprisal_from_probs(tokens, prob_lookup,
                                                        log_base, EPSILON)}})

\* returns the pair <<mean, variance>>
surprisal_stats_from_ref(tokens, ref_dict, log_base, unknown_prob) ==
  The({IF surprisals.err # "none" THEN surprisals
       ELSE IF Len(surprisals.val) = 0 THEN Ok(<<Zero, Zero>>)
       ELSE Ok(<<NpMean(surprisals.val), NpVar(surprisals.val)>>)
         : surprisals \in {surprisal_from_probs(tokens, ref_dict, log_base,
                                                unknown_prob)}})

\* ----------------------------------------------------------- analyzer.py
SUPPORTED_COMPRESSION_ALGOS == {"lzma", "gzip", "bz2", "zlib"}

\* len(" ".join(window_tokens).encode("utf-8")); every token here is one byte
JoinedByteLen(window_tokens) ==
  IF window_tokens = <<>> THEN 0 ELSE 2 * Len(window_tokens) - 1

\* _compression_ratio.  The compressors are not modelled: the ratio of a
\* non-empty text is kept as the pair (algorithm, raw length) it is a
\* function of; raw_len = 0 stands for the float 0.0.
compression_ratio(window_tokens, algorithm) ==
  IF algorithm \notin SUPPORTED_COMPRESSION_ALGOS THEN Raise(ErrCompression)
  ELSE IF JoinedByteLen(window_tokens) = 0
       THEN Ok([compressed_by |-> "none", raw_len |-> 0])
       ELSE Ok([compressed_by |-> algorithm,
                raw_len |-> JoinedByteLen(window_tokens)])

\* _compression_ratio as a number, the byte length of the compressor's
\* output given: the name is not tested, any name not handled compresses
\* with zlib
compression_ratio_value_any_name(raw_len, algorithm, compressed_len) ==
  IF raw_len = 0 THEN Ok(Zero) ELSE Ok(Rat(compressed_len, raw_len))

\* _compression_ratio as a number, the byte length of the compressor's
\* output given
compression_ratio_value(raw_len, algorithm, compressed_len) ==
  IF algorithm \notin SUPPORTED_COMPRESSION_ALGOS THEN Raise(ErrCompression)
  ELSE IF raw_len = 0 THEN Ok(Zero)
  ELSE Ok(Rat(compressed_len, raw_len))

\* range(start, stop, step) for step > 0, as a sequence
PyRange(start, stop, step) ==
  LET n == IF stop <= start THEN 0 ELSE (stop - start + step - 1) \div step
  IN [i \in 1..n |-> start + (i - 1) * step]

\* tokens[start : start + size] for 0 <= start, start + size <= len(tokens)
Slice(tokens, start, size) == SubSeq(tokens, start + 1, start + size)

\* the tokens after the last full window kept as one more, partial window
iter_window_tokens_with_tail(tokens, window_size, step) ==
  IF window_size <= 0 \/ step <= 0 THEN Raise(ErrWindow)
  ELSE IF tokens = <<>> THEN Ok(<<>>)
  ELSE IF Len(tokens) < window_size THEN Ok(<<tokens>>)
  ELSE LET starts == PyRange(0, Len(tokens) - window_size + 1, step)
           last == starts[Len(starts)] + window_size
       IN Ok([i \in 1..Len(starts) |-> Slice(tokens, starts[i], window_size)]
               \o (IF last < Len(tokens)
                   THEN <<Slice(tokens, last, Len(tokens) - last)>> ELSE <<>>))

\* range(0, len(tokens) - window_size, step): the last full window is lost
iter_window_tokens_short_range(tokens, window_size, step) ==
  IF window_size <= 0 \/ step <= 0 THEN Raise(ErrWindow)
  ELSE IF tokens = <<>> THEN Ok(<<>>)
  ELSE IF Len(tokens) < window_size THEN Ok(<<tokens>>)
  ELSE LET starts == PyRange(0, Len(tokens) - window_size, step)
       IN Ok([i \in 1..Len(starts) |-> Slice(tokens, starts[i], window_size)])

\* the emptiness test moved before the validation of window_size and step
iter_window_tokens_empty_first(tokens, window_size, step) ==
  IF tokens = <<>> THEN Ok(<<>>)
  ELSE IF window_size <= 0 \/ step <= 0 THEN Raise(ErrWindow)
  ELSE IF Len(tokens) < window_size THEN Ok(<<tokens>>)
  ELSE LET starts == PyRange(0, Len(tokens) - window_size + 1, step)
       IN Ok([i \in 1..Len(starts) |-> Slice(tokens, starts[i], window_size)])

iter_window_tokens(tokens, window_size, step) ==
  IF window_size <= 0 \/ step <= 0 THEN Raise(ErrWindow)
  ELSE IF tokens = <<>> THEN Ok(<<>>)
  ELSE IF Len(tokens) < window_size THEN Ok(<<tokens>>)
  ELSE LET starts == PyRange(0, Len(tokens) - window_size + 1, step)
       IN Ok([i \in 1..Len(starts) |-> Slice(tokens, starts[i], window_size)])

\* An optional value: <<>> is None, <<v>> is v.
None == <<>>
Some(v) == <<v>>
IsNone(o) == o = <<>>
Get(o) == o[1]

\* lines 133-146: mean_entropy and entropy_variance by mode, as a pair
window_stats(window_tokens, mode, ref_dict, log_base, unknown_prob) ==
  IF mode = "raw"
  THEN The({IF p[1].err # "none" THEN p[1]
            ELSE IF p[2].err # "none" THEN p[2]
            ELSE Ok(<<p[1].val, p[2].val>>)
              : p \in {<<calculate_shannon_entropy(window_tokens, log_base),
                         entropy_variance_from_tokens(window_tokens, log_base)>>}})
  ELSE IF mode = "diff"
  THEN IF IsNone(ref_dict) THEN Raise(ErrRefDict)
       ELSE surprisal_stats_from_ref(window_tokens, Get(ref_dict),
                                     log_base, unknown_prob)
  ELSE Raise(ErrMode)

\* _analyze_window: the four metrics of one window, or the error raised
analyze_window(window_tokens, mode, ref_dict, log_base, compression, unknown_prob) ==
  The({IF stats.err # "none" THEN stats
       ELSE IF ratio.err # "none" THEN ratio
       ELSE Ok([mean_entropy |-> stats.val[1],
                entropy_variance |-> stats.val[2],
                compression_ratio |-> ratio.val,
                unique_ratio |->
                  IF window_tokens # <<>>
                  THEN Rat(Cardinality(SeqRange(window_tokens)), Len(window_tokens))
                  ELSE Zero])
         : stats \in {window_stats(window_tokens, mode, ref_dict, log_base,
                                   unknown_prob)},
           ratio \in {compression_ratio(window_tokens, compression)}})

\* the windows numbered from 1
WithWindowId_from_one(window_id, row) ==
  [window_id |-> window_id + 1,
   mean_entropy |-> row.mean_entropy,
   entropy_variance |-> row.entropy_variance,
   compression_ratio |-> row.compression_ratio,
   unique_ratio |-> row.unique_ratio]

\* {"window_id": window_id, **row}
WithWindowId(window_id, row) ==
  [window_id |-> window_id,
   mean_entropy |-> row.mean_entropy,
   entropy_variance |-> row.entropy_variance,
   compression_ratio |-> row.compression_ratio,
   unique_ratio |-> row.unique_ratio]

\* the rows of the windows, or the error of the first window that raises
RowsOrFirstError(rows) ==
  LET failed == {k \in 1..Len(rows) : rows[k].err # "none"}
  IN IF failed # {}
     THEN Raise(rows[CHOOSE k \in failed : \A j \in failed : k <= j].err)
     ELSE Ok([k \in 1..Len(rows) |-> WithWindowId(k - 1, rows[k].val)])

\* the loop with windows that hold no token of the reference table skipped
analyze_loop_skip_unknown(windows, mode, ref_dict, log_base, compression, unknown_prob) ==
  The({RowsOrFirstError(rows)
         : rows \in {[k \in 1..Len(kept) |->
                        analyze_window(kept[k], mode, ref_dict, log_base,
                                       compression, unknown_prob)] @@ <<>>
                       : kept \in {SelectSeq(windows,
                                     LAMBDA w : IsNone(ref_dict)
                                       \/ SeqRange(w) \cap DOMAIN Get(ref_dict) # {})}}})

\* lines 180-191, the loop over enumerate(windows): the record list, or the
\* error of the first window that raises
analyze_loop(windows, mode, ref_dict, log_base, compression, unknown_prob) ==
  The({RowsOrFirstError(rows)
         : rows \in {[k \in 1..Len(windows) |->
                        analyze_window(windows[k], mode, ref_dict, log_base,
                                       compression, unknown_prob)] @@ <<>>}})

\* windows handed over by the caller lose their last one
analyze_tokens_drops_last_precomputed(tokens, mode, window_size, step, ref_dict, log_base, compression, unknown_prob, precomputed_windows) ==
  The({IF windows.err # "none" THEN windows
       ELSE analyze_loop(windows.val, mode, ref_dict, log_base, compression,
                         unknown_prob)
         : windows \in {IF ~IsNone(precomputed_windows)
                        THEN Ok(SubSeq(Get(precomputed_windows), 1,
                                       Len(Get(precomputed_windows)) - 1))
                        ELSE iter_window_tokens(tokens, window_size, step)}})

\* analyze_tokens as one function: the record list, or the error raised
analyze_tokens(tokens, mode, window_size, step, ref_dict, log_base, compression, unknown_prob, precomputed_windows) ==
  The({IF windows.err # "none" THEN windows
       ELSE analyze_loop(windows.val, mode, ref_dict, log_base, compression,
                         unknown_prob)
         : windows \in {IF ~IsNone(precomputed_windows)
                        THEN Ok(Get(precomputed_windows))
                        ELSE iter_window_tokens(tokens, window_size, step)}})

\* analyze_tokens_batch as one function: the items() of the dict it returns,
\* in insertion order, or the error raised
analyze_tokens_batch(tokens, mode, window_size, step, ref_dicts, log_base, compression, unknown_prob) ==
  The({IF windows.err # "none" THEN windows
       ELSE IF mode = "raw"
       THEN The({IF r.err # "none" THEN r ELSE Ok(<<<<"raw", r.val>>>>)
                   : r \in {analyze_tokens(tokens, "raw", window_size, step, None,
                                           log_base, compression, unknown_prob,
                                           Some(windows.val))}})
       ELSE IF mode # "diff" THEN Raise(ErrMode)
       ELSE IF ref_dicts = <<>> THEN Raise(ErrRefDicts)
       ELSE The({LET failed == {k \in 1..Len(per_ref) : per_ref[k].err # "none"}
                 IN IF failed # {}
                    THEN per_ref[CHOOSE k \in failed : \A j \in failed : k <= j]
                    ELSE Ok([k \in 1..Len(per_ref) |->
                               <<ref_dicts[k][1], per_ref[k].val>>])
                   : per_ref \in
                       {[k \in 1..Len(ref_dicts) |->
                           analyze_tokens(tokens, "diff", window_size, step,
                                          Some(ref_dicts[k][2]), log_base,
                                          compression, unknown_prob,
                                          Some(windows.val))] @@ <<>>}})
         : windows \in {iter_window_tokens(tokens, window_size, step)}})

\* the value a dict holds under a key, the dict given as its items()
ItemOf(items, key) == items[CHOOSE k \in 1..Len(items) : items[k][1] = key][2]

\* ------------------------------------------------------- text and tokens
\* A text is a sequence of whitespace-separated words: "A" is the word "a"
\* in upper case, "!" a word of punctuation only.
RawWords == {"a", "b", "A", "!"}
Lower(word) == IF word = "A" THEN "a" ELSE word
IsPunctuation(word) == word = "!"

\* _legacy_preprocess_text: lowercase, strip punctuation, split on whitespace
legacy_preprocess_text(text) ==
  SelectSeq([i \in 1..Len(text) |-> Lower(text[i])], LAMBDA w : ~IsPunctuation(w))

\* preprocess_text(text) with no tokenization argument: DEFAULT_TOKENIZATION
\* names the method "legacy"
preprocess_text(text) == legacy_preprocess_text(text)

\* DEFAULT_TOKENIZATION, analyzer.py lines 21-25
DEFAULT_TOKENIZATION ==
  [method |-> "legacy", encoding_name |-> "cl100k_base", include_punctuation |-> TRUE]

\* the tokenization section of config.DEFAULT_CONFIG, config.py lines 21-26
DEFAULT_CONFIG_tokenization ==
  [method |-> "tiktoken", encoding_name |-> "cl100k_base", include_punctuation |-> TRUE,
   fallback_to_legacy_if_tiktoken_missing |-> TRUE]

ErrTokenization == "tokenization method must be one of: legacy, tiktoken"

\* A tokenization mapping is a record of optional values, None for a key
\* the mapping lacks.  tokenization.get(key, default):
GetOr(option, default) == IF IsNone(option) THEN default ELSE Get(option)

\* _resolve_tokenization_config
resolve_tokenization_config(tokenization) ==
  IF IsNone(tokenization) THEN DEFAULT_TOKENIZATION
  ELSE [method |-> GetOr(Get(tokenization).method, DEFAULT_TOKENIZATION.method),
        encoding_name |-> GetOr(Get(tokenization).encoding_name,
                                DEFAULT_TOKENIZATION.encoding_name),
        include_punctuation |-> GetOr(Get(tokenization).include_punctuation,
                                      DEFAULT_TOKENIZATION.include_punctuation)]

\* str(method).lower()
LowerMethod(method) == IF method = "TikToken" THEN "tiktoken" ELSE method

\* _tiktoken_preprocess_text.  The encoding is library code: here each word
\* of the prepared text is one token, its case kept.
tiktoken_preprocess_text(text, encoding_name, include_punctuation, tiktoken_installed) ==
  IF ~tiktoken_installed THEN legacy_preprocess_text(text)
  ELSE IF include_punctuation THEN text
  ELSE SelectSeq(text, LAMBDA w : ~IsPunctuation(w))

\* preprocess_text(text, tokenization), where `import tiktoken` succeeds or
\* not
preprocess_text_with(text, tokenization, tiktoken_installed) ==
  LET tokenization_cfg == resolve_tokenization_config(tokenization)
      method == LowerMethod(tokenization_cfg.method)
  IN IF method = "legacy" THEN Ok(legacy_preprocess_text(text))
     ELSE IF method = "tiktoken"
     THEN Ok(tiktoken_preprocess_text(text, tokenization_cfg.encoding_name,
                                      tokenization_cfg.include_punctuation,
                                      tiktoken_installed))
     ELSE Raise(ErrTokenization)

\* ---------------------------------------------------------- tournament.py
\* A path is the sequence of its parts below the input directory, a part a
\* number standing for a name (names compare as their numbers do); the part
\* 9 is a name that does not end in ".txt".
PathLess(p, q) ==
  \E k \in 1..(Len(p) + 1) :
    /\ k <= Len(q)
    /\ \A j \in 1..(k - 1) : j <= Len(q) /\ p[j] = q[j]
    /\ k = Len(p) + 1 \/ p[k] < q[k]

\* file_path.name
PathName(p) == p[Len(p)]
IsTxt(p) == PathName(p) # 9

\* sorted(paths), the paths distinct
RECURSIVE SortedPaths(_)
SortedPaths(S) ==
  IF S = {} THEN <<>>
  ELSE The({<<least>> \o SortedPaths(S \ {least})
              : least \in {CHOOSE p \in S : \A q \in S : p = q \/ PathLess(p, q)}})

\* _collect_input_files, with the order in which rglob yields the directory's
\* files as `listing`; the listing returned as it comes, unsorted
collect_input_files_unsorted(input_path, listing) ==
  IF input_path.kind = "file" THEN Ok(<<input_path.path>>)
  ELSE IF input_path.kind = "dir"
  THEN Ok(SelectSeq(listing, IsTxt))
  ELSE Raise(ErrNotFound)

collect_input_files(input_path, listing) ==
  IF input_path.kind = "file" THEN Ok(<<input_path.path>>)
  ELSE IF input_path.kind = "dir"
  THEN Ok(SortedPaths({listing[i] : i \in {j \in 1..Len(listing) : IsTxt(listing[j])}}))
  ELSE Raise(ErrNotFound)

\* one Tournament Record
DeltaRow(filename, label, paisa_row, synthetic_row) ==
  [filename |-> filename,
   window_id |-> paisa_row.window_id,
   label |-> label,
   delta_h |-> RatSub(paisa_row.mean_entropy, synthetic_row.mean_entropy),
   burstiness_paisa |-> paisa_row.entropy_variance]

\* the pairing cut to the shorter list, the length test left out
compute_delta_rows_truncating(filename, label, paisa_rows, synthetic_rows) ==
  LET n == IF Len(paisa_rows) < Len(synthetic_rows)
           THEN Len(paisa_rows) ELSE Len(synthetic_rows)
  IN Ok([i \in 1..n |-> DeltaRow(filename, label, paisa_rows[i], synthetic_rows[i])])

\* delta_h with the operands exchanged
compute_delta_rows_flipped(filename, label, paisa_rows, synthetic_rows) ==
  IF Len(paisa_rows) # Len(synthetic_rows) THEN Raise(ErrMismatch)
  ELSE Ok([i \in 1..Len(paisa_rows) |->
             DeltaRow(filename, label,
                      [paisa_rows[i] EXCEPT !.mean_entropy = synthetic_rows[i].mean_entropy],
                      [synthetic_rows[i] EXCEPT !.mean_entropy = paisa_rows[i].mean_entropy])])

\* _compute_delta_rows
compute_delta_rows(filename, label, paisa_rows, synthetic_rows) ==
  IF Len(paisa_rows) # Len(synthetic_rows) THEN Raise(ErrMismatch)
  ELSE Ok([i \in 1..Len(paisa_rows) |->
             DeltaRow(filename, label, paisa_rows[i], synthetic_rows[i])])

\* -------------------------------------------------- reference builders
\* smoothing_k and the probabilities of a built table are exact rationals
RatDiv(x, y) == The({Rat(p[1].n * p[2].d, p[1].d * p[2].n) : p \in {<<x, y>>}})
RatOfInt(k) == [n |-> k, d |-> 1]

\* Counter(tokens)
Counter(tokens) == [t \in SeqRange(tokens) |-> Count(tokens, t)]

\* sum(counts.values())
RECURSIVE SumValues(_, _)
SumValues(counts, S) ==
  IF S = {} THEN 0
  ELSE LET t == CHOOSE x \in S : TRUE
       IN counts[t] + SumValues(counts, S \ {t})

\* the smoothed denominator without the vocabulary size: total + smoothing_k
build_ref_dict_from_counter_no_vocab(counts, smoothing_k) ==
  IF smoothing_k.n < 0 THEN Raise(ErrSmoothing)
  ELSE The({IF total = 0 THEN Ok(<<>>)
            ELSE IF smoothing_k.n = 0
            THEN Ok([t \in DOMAIN counts |-> Rat(counts[t], total)])
            ELSE The({Ok([t \in DOMAIN counts |->
                            RatDiv(RatAdd(RatOfInt(counts[t]), smoothing_k), denom)])
                        : denom \in {RatAdd(RatOfInt(total), smoothing_k)}})
              : total \in {SumValues(counts, DOMAIN counts)}})

\* smoothing_k added to the counts but not to the denominator
build_ref_dict_from_counter_numerator_only(counts, smoothing_k) ==
  IF smoothing_k.n < 0 THEN Raise(ErrSmoothing)
  ELSE The({IF total = 0 THEN Ok(<<>>)
            ELSE Ok([t \in DOMAIN counts |->
                       RatDiv(RatAdd(RatOfInt(counts[t]), smoothing_k), RatOfInt(total))])
              : total \in {SumValues(counts, DOMAIN counts)}})

\* scripts/prepare_resources.py, _build_ref_dict_from_counter
build_ref_dict_from_counter(counts, smoothing_k) ==
  IF smoothing_k.n < 0 THEN Raise(ErrSmoothing)
  ELSE The({IF total = 0 THEN Ok(<<>>)
            ELSE IF smoothing_k.n = 0
            THEN Ok([t \in DOMAIN counts |-> Rat(counts[t], total)])
            ELSE The({Ok([t \in DOMAIN counts |->
                            RatDiv(RatAdd(RatOfInt(counts[t]), smoothing_k), denom)])
                        : denom \in {RatAdd(RatOfInt(total),
                                            RatMul(smoothing_k,
                                                   RatOfInt(Cardinality(DOMAIN counts))))}})
              : total \in {SumValues(counts, DOMAIN counts)}})

\* the test of an empty corpus made before the test of smoothing_k
build_ref_dict_empty_first(text, smoothing_k) ==
  The({The({IF total = 0 THEN Ok(<<>>)
            ELSE IF smoothing_k.n < 0 THEN Raise(ErrSmoothing)
            ELSE IF smoothing_k.n = 0
            THEN Ok([t \in DOMAIN counts |-> Rat(counts[t], total)])
            ELSE The({Ok([t \in DOMAIN counts |->
                            RatDiv(RatAdd(RatOfInt(counts[t]), smoothing_k), denom)])
                        : denom \in {RatAdd(RatOfInt(total),
                                            RatMul(smoothing_k,
                                                   RatOfInt(Cardinality(DOMAIN counts))))}})
              : total \in {SumValues(counts, DOMAIN counts)}})
         : counts \in {Counter(preprocess_text(text))}})

\* metrics.py, build_ref_dict, the corpus file's text given
build_ref_dict(text, smoothing_k) ==
  The({IF smoothing_k.n < 0 THEN Raise(ErrSmoothing)
       ELSE The({IF total = 0 THEN Ok(<<>>)
                 ELSE IF smoothing_k.n = 0
                 THEN Ok([t \in DOMAIN counts |-> Rat(counts[t], total)])
                 ELSE The({Ok([t \in DOMAIN counts |->
                                 RatDiv(RatAdd(RatOfInt(counts[t]), smoothing_k), denom)])
                             : denom \in {RatAdd(RatOfInt(total),
                                                 RatMul(smoothing_k,
                                                        RatOfInt(Cardinality(DOMAIN counts))))}})
                   : total \in {SumValues(counts, DOMAIN counts)}})
         : counts \in {Counter(preprocess_text(text))}})

\* metrics.py, build_ref_dict_from_frequency_list.  A line of the file is
\* [parts, word, count]: the number of its whitespace-separated parts, the
\* first part, and the second part as int() reads it, None when int() raises
\* ValueError.  The loop of lines 126-139, from the state <<counts, total>>:
RECURSIVE frequency_list_loop(_, _, _)
frequency_list_loop(lines, counts, total) ==
  IF lines = <<>> THEN <<counts, total>>
  ELSE LET line == Head(lines)
       IN IF line.parts < 2 \/ IsNone(line.count)
          THEN frequency_list_loop(Tail(lines), counts, total)
          ELSE frequency_list_loop(
                 Tail(lines),
                 [w \in DOMAIN counts \cup {line.word} |->
                    IF w = line.word THEN Get(line.count) ELSE counts[w]],
                 total + Get(line.count))

build_ref_dict_from_frequency_list(lines) ==
  The({IF end[2] = 0 THEN Ok(<<>>)
       ELSE Ok([w \in DOMAIN end[1] |-> Rat(end[1][w], end[2])])
         : end \in {frequency_list_loop(lines, <<>>, 0)}})

\* ------------------------------------------------- tools/report_stats.py
\* A frame is [columns, rows]; a row is [label, delta_h], delta_h an
\* optional integer, None for NaN.  A column the frame lacks is not read.
\* labels.astype(str).str.strip().str.lower()
NormalLabel(label) == IF label = "Human " THEN "human" ELSE label

ErrNoDeltaColumn == "Input DataFrame must contain a 'delta_h' column"
ErrKeyDelta == "KeyError: 'delta_h'"
RuleHeading == "## Classification Metrics (Rule: delta_h > 0 is Human)"

\* line 55: valid_mask, as the list of the rows it keeps
ValidRows(df) ==
  SelectSeq(df.rows,
            LAMBDA row : NormalLabel(row.label) \in {"human", "ai"} /\ ~IsNone(row.delta_h))

\* line 59: y_true_human, and line 60: y_pred_human, of one valid row
TrueHuman(row) == NormalLabel(row.label) = "human"
PredictedHuman(row) == Get(row.delta_h) > 0

\* lines 62-65: np.sum over the valid rows of one cell of the matrix
CellCount(valid, predicted, true) ==
  Cardinality({i \in 1..Len(valid) :
                 PredictedHuman(valid[i]) = predicted /\ TrueHuman(valid[i]) = true})

\* lines 62-86: the metrics from the four cells of the confusion matrix
MetricsOf(tp, tn, fp, fn) ==
  LET total == tp + tn + fp + fn
      precision == IF tp + fp # 0 THEN Rat(tp, tp + fp) ELSE Zero
      recall == IF tp + fn # 0 THEN Rat(tp, tp + fn) ELSE Zero
      f1_den == RatAdd(precision, recall)
  IN [accuracy |-> IF total # 0 THEN Rat(tp + tn, total) ELSE Zero,
      precision_human |-> precision,
      recall_human |-> recall,
      f1_human |-> IF f1_den.n # 0
                   THEN RatDiv(RatMul(RatOfInt(2), RatMul(precision, recall)), f1_den)
                   ELSE Zero,
      tp |-> tp, tn |-> tn, fp |-> fp, fn |-> fn, n |-> total]

\* _classification_metrics: None, or the metrics
classification_metrics(df) ==
  IF "label" \notin df.columns THEN Ok(None)
  ELSE IF "delta_h" \notin df.columns THEN Raise(ErrKeyDelta)
  ELSE The({IF valid = <<>> THEN Ok(None)
            ELSE Ok(Some(MetricsOf(CellCount(valid, TRUE, TRUE),
                                   CellCount(valid, FALSE, FALSE),
                                   CellCount(valid, TRUE, FALSE),
                                   CellCount(valid, FALSE, TRUE))))
              : valid \in {ValidRows(df)}})

\* _descriptive_stats, its `count` column only: per label (or for "all") the
\* number of rows whose delta_h is not NaN; the float columns are left out
descriptive_stats(df) ==
  IF "label" \in df.columns
  THEN [label \in {df.rows[i].label : i \in 1..Len(df.rows)} |->
          Cardinality({i \in 1..Len(df.rows) :
                         df.rows[i].label = label /\ ~IsNone(df.rows[i].delta_h)})]
  ELSE [label \in {"all"} |->
          Cardinality({i \in 1..Len(df.rows) : ~IsNone(df.rows[i].delta_h)})]

\* generate_report: the report as its title, its statistics, the heading of
\* its metrics section and the metrics under it (None: "Unavailable")
generate_report(df) ==
  IF "delta_h" \notin df.columns THEN Raise(ErrNoDeltaColumn)
  ELSE The({IF metrics.err # "none" THEN metrics
            ELSE Ok([title |-> "# Maxwell-Demon Tournament Report",
                     stats |-> descriptive_stats(df),
                     heading |-> RuleHeading,
                     metrics |-> metrics.val])
              : metrics \in {classification_metrics(df)}})

\* ------------------------------------------------------- standard_cli.py
\* A path below base_dir = <output_root>/<dataset>/<workflow> is
\* <<dir, stem, compression, suffix>>: <<"data", "delta", "lzma", "csv">> is
\* data/delta_lzma.csv, <<"data", "", "", "">> the directory data.
\* The file system is changed by events, kept in order in `disk`.
Mkdir(dir) == [op |-> "mkdir", path |-> <<dir, "", "", "">>]
WriteFile(path) == [op |-> "write", path |-> path]
Unlink(path) == [op |-> "unlink", path |-> path]
\* path.parent.mkdir(parents=True, exist_ok=True), then the write
MkdirAndWrite(path) == <<Mkdir(path[1]), WriteFile(path)>>

manifest_path == <<"", "run_manifest", "", "json">>

ErrNoCompression == "At least one compression must be provided"
ErrUnsupportedCompression == "Unsupported compression(s)"
ErrMissingPaisa == "Missing PAISA reference dictionary"
ErrMissingSynthetic == "Missing synthetic reference dictionary"
ErrNoTxt == "No .txt files found in input"
ErrUnexpectedKeyword == "run_tournament() got an unexpected keyword argument 'tokenization'"

\* _resolve_compressions, the list of names selected (requested or
\* configured, stripped, blanks dropped) given
resolve_compressions(selected) ==
  IF selected = <<>> THEN Raise(ErrNoCompression)
  ELSE IF \E i \in 1..Len(selected) : selected[i] \notin SUPPORTED_COMPRESSION_ALGOS
  THEN Raise(ErrUnsupportedCompression)
  ELSE Ok(selected)

\* _ensure_reference_paths: the message it raises with, or "none"
ensure_reference_paths(refs, tournament_mode) ==
  IF ~refs.paisa THEN ErrMissingPaisa
  ELSE IF tournament_mode /\ ~refs.synthetic THEN ErrMissingSynthetic
  ELSE "none"

\* lines 314-340: the artifacts a dry run plans for one compression
planned_for(workflow, compression) ==
  IF workflow = "human-only"
  THEN <<<<"data", "labeled", compression, "csv">>,
         <<"data", "doc_level", compression, "csv">>,
         <<"data", "separation", compression, "csv">>,
         <<"plot", "box_mean_entropy_by_label", compression, "png">>,
         <<"plot", "box_compression_ratio_by_label", compression, "png">>,
         <<"plot", "phase_density_mean_entropy_vs_compression_ratio_by_label",
           compression, "html">>>>
  ELSE <<<<"data", "delta", compression, "csv">>,
         <<"data", "delta", compression, "md">>,
         <<"data", "separation", compression, "csv">>,
         <<"plot", "phase_delta_h_vs_burstiness_paisa", compression, "html">>,
         <<"plot", "box_delta_h_by_label", compression, "png">>>>

\* the dry run returning from inside its loop, after the first compression
planned_artifacts_first_only(workflow, compressions) ==
  IF compressions = <<>> THEN <<>> ELSE planned_for(workflow, Head(compressions))

\* lines 312-341: the artifacts a dry run plans
RECURSIVE planned_artifacts(_, _)
planned_artifacts(workflow, compressions) ==
  IF compressions = <<>> THEN <<>>
  ELSE planned_for(workflow, Head(compressions))
         \o planned_artifacts(workflow, Tail(compressions))

\* lines 299-310: the manifest; its "artifacts" is the list `artifacts`
\* itself.  The timestamp and the paths of the inputs are left out.
Manifest(workflow, compressions, dry_run, artifact_list) ==
  [workflow |-> workflow, compressions |-> compressions, dry_run |-> dry_run,
   artifacts |-> artifact_list]

\* tournament.py lines 46-57: the keyword parameters of run_tournament, and
\* standard_cli.py lines 460-471: the keywords run_standard_workflow passes
run_tournament_parameters ==
  {"human_input", "ai_input", "paisa_ref_path", "synthetic_ref_path", "window_size",
   "step", "log_base", "output_path", "compression"}
run_tournament_keywords_passed ==
  {"human_input", "ai_input", "paisa_ref_path", "synthetic_ref_path", "window_size",
   "step", "log_base", "output_path", "compression", "tokenization"}

\* -------------------------------------------------------------- config.py
\* A TOML value: its Python type after tomllib.loads and what it holds.  A
\* float is held in tenths, an array by the one string in it.
TomlStr(text) == [type |-> "str", text |-> text, num |-> 0]
TomlInt(num) == [type |-> "int", text |-> "", num |-> num]
TomlFloat(tenths) == [type |-> "float", text |-> "", num |-> tenths]
TomlBool(b) == [type |-> "bool", text |-> "", num |-> IF b THEN 10 ELSE 0]
TomlArray(text) == [type |-> "array", text |-> text, num |-> 0]

\* isinstance(v, int): a bool is an int; isinstance(v, (int, float))
IsInt(v) == v.type \in {"int", "bool"}
IsNumber(v) == v.type \in {"int", "bool", "float"}
\* the number a numeric value compares as, in tenths
Tenths(v) == IF v.type = "int" THEN 10 * v.num ELSE v.num

\* a table: a function from its keys; a section of the file is absent, a
\* table, or a value that is no table (here the integer 5)
Table(keys, value) == [k \in keys |-> value[k]]
AbsentSection == [shape |-> "absent", table |-> Table({}, <<>>)]
ScalarSection == [shape |-> "scalar", table |-> Table({}, <<>>)]
TableSection(table) == [shape |-> "table", table |-> table]

\* lines 12-75, the sections analysis, compression, tokenization, reference
\* and standard; of reference the keys paisa_path and smoothing_k, of
\* standard the key compressions (its first item)
DEFAULT_CONFIG ==
  [analysis |-> [window |-> TomlInt(50), step |-> TomlInt(10), log_base |-> TomlFloat(27)],
   compression |-> [algorithm |-> TomlStr("lzma")],
   tokenization |-> [method |-> TomlStr("tiktoken"),
                     encoding_name |-> TomlStr("cl100k_base"),
                     include_punctuation |-> TomlBool(TRUE),
                     fallback_to_legacy_if_tiktoken_missing |-> TomlBool(TRUE)],
   reference |-> [paisa_path |-> TomlStr("data/reference/paisa_ref_dict.json"),
                  smoothing_k |-> TomlFloat(10)],
   standard |-> [compressions |-> TomlArray("lzma")]]

ErrNotAMapping == "TypeError: 'int' object is not a mapping"
ErrUnhashable == "TypeError: unhashable type: 'list'"

\* {**defaults, **section}
DictMerge(defaults, table) ==
  [k \in DOMAIN defaults \cup DOMAIN table |->
     IF k \in DOMAIN table THEN table[k] ELSE defaults[k]]

\* lines 81-104: data.get(section, {}) merged over the defaults, section by
\* section; ** of a value that is no mapping raises TypeError
merge_config(defaults, data) ==
  IF \E section \in DOMAIN data : data[section].shape = "scalar"
  THEN Raise(ErrNotAMapping)
  ELSE Ok([section \in DOMAIN defaults |->
             DictMerge(defaults[section], data[section].table)])

\* x not in {"lzma", ...}: hashing a list raises TypeError
NotInNames(v, names) == v.type # "str" \/ v.text \notin names

\* _validate_config, the checks of the sections modelled, in their order: the
\* message it raises with, or "none"
validate_config(cfg) ==
  LET window == cfg.analysis.window
      step == cfg.analysis.step
      log_base == cfg.analysis.log_base
      compression == cfg.compression.algorithm
      method == cfg.tokenization.method
      encoding_name == cfg.tokenization.encoding_name
      include_punctuation == cfg.tokenization.include_punctuation
      fallback_to_legacy == cfg.tokenization.fallback_to_legacy_if_tiktoken_missing
      paisa_path == cfg.reference.paisa_path
      smoothing_k == cfg.reference.smoothing_k
      compressions == cfg.standard.compressions
  IN IF ~IsInt(window) \/ Tenths(window) <= 0
     THEN "ValueError: analysis.window must be a positive integer"
     ELSE IF ~IsInt(step) \/ Tenths(step) <= 0
     THEN "ValueError: analysis.step must be a positive integer"
     ELSE IF ~IsNumber(log_base) \/ Tenths(log_base) <= 0 \/ Tenths(log_base) = 10
     THEN "ValueError: analysis.log_base must be > 0 and != 1"
     ELSE IF compression.type = "array" THEN ErrUnhashable
     ELSE IF NotInNames(compression, {"lzma", "gzip", "bz2", "zlib"})
     THEN "ValueError: compression.algorithm must be one of: lzma, gzip, bz2, zlib"
     ELSE IF method.type = "array" THEN ErrUnhashable
     ELSE IF NotInNames(method, {"legacy", "tiktoken"})
     THEN "ValueError: tokenization.method must be one of: legacy, tiktoken"
     ELSE IF encoding_name.type # "str" \/ encoding_name.text = ""
     THEN "ValueError: tokenization.encoding_name must be a non-empty string"
     ELSE IF include_punctuation.type # "bool"
     THEN "ValueError: tokenization.include_punctuation must be a boolean"
     ELSE IF fallback_to_legacy.type # "bool"
     THEN "ValueError: tokenization.fallback_to_legacy_if_tiktoken_missing must be a boolean"
     ELSE IF paisa_path.type # "str" \/ paisa_path.text = ""
     THEN "ValueError: reference.paisa_path must be a non-empty string"
     ELSE IF ~IsNumber(smoothing_k) \/ Tenths(smoothing_k) < 0
     THEN "ValueError: reference.smoothing_k must be a non-negative number"
     ELSE IF compressions.type # "array"
     THEN "ValueError: standard.compressions must be a non-empty list"
     ELSE IF compressions.text \notin {"lzma", "gzip", "bz2", "zlib"}
     THEN "ValueError: standard.compressions items must be among: lzma, gzip, bz2, zlib"
     ELSE "none"

\* the messages of the ValueErrors that _validate_config raises
ConfigValueErrors ==
  {"ValueError: analysis.window must be a positive integer",
   "ValueError: analysis.step must be a positive integer",
   "ValueError: analysis.log_base must be > 0 and != 1",
   "ValueError: compression.algorithm must be one of: lzma, gzip, bz2, zlib",
   "ValueError: tokenization.method must be one of: legacy, tiktoken",
   "ValueError: tokenization.encoding_name must be a non-empty string",
   "ValueError: tokenization.include_punctuation must be a boolean",
   "ValueError: tokenization.fallback_to_legacy_if_tiktoken_missing must be a boolean",
   "ValueError: reference.paisa_path must be a non-empty string",
   "ValueError: reference.smoothing_k must be a non-negative number",
   "ValueError: standard must be a TOML table",
   "ValueError: standard.compressions must be a non-empty list",
   "ValueError: standard.compressions items must be among: lzma, gzip, bz2, zlib"}

\* ------------------------------------------------------------------ cli.py
ErrHumanOnlyMode == "--human-only is incompatible with --mode raw"
ErrHumanOnlyReference == "--human-only is incompatible with --reference synthetic"

\* x or default, for an optional string
OrDefault(option, default) == IF IsNone(option) THEN default ELSE Get(option)

\* --human-only leaves the mode and the reference as they were given
resolve_mode_reference_as_given(args) ==
  LET mode == OrDefault(args.mode, "raw")
      reference == OrDefault(args.reference, "paisa")
  IN IF ~args.human_only THEN Ok(<<mode, reference>>)
     ELSE IF args.mode \notin {None, Some("diff")} THEN Raise(ErrHumanOnlyMode)
     ELSE IF args.reference \notin {None, Some("paisa")} THEN Raise(ErrHumanOnlyReference)
     ELSE Ok(<<mode, reference>>)

\* _resolve_mode_reference: the pair (mode, reference), or SystemExit
resolve_mode_reference(args) ==
  LET mode == OrDefault(args.mode, "raw")
      reference == OrDefault(args.reference, "paisa")
  IN IF ~args.human_only THEN Ok(<<mode, reference>>)
     ELSE IF args.mode \notin {None, Some("diff")} THEN Raise(ErrHumanOnlyMode)
     ELSE IF args.reference \notin {None, Some("paisa")} THEN Raise(ErrHumanOnlyReference)
     ELSE Ok(<<"diff", "paisa">>)

\* output_paths.single_output_filename, the stem of the file name
single_output_filename(mode, reference, human_only) ==
  IF human_only THEN "single_human_only_paisa"
  ELSE IF mode = "diff" /\ reference # "" THEN "single_diff_" \o reference
  ELSE "single_" \o mode

\* ----------------------------------------------- scripts_fetch_human.py
\* the id of the entry at a position of the URL list: _resolve_article_id
\* is not modelled, every entry gets an id of its own
ArticleIds == <<"001", "002", "003", "004">>
\* human_dir / f"{article_id}_human.txt", and the row of metadata.csv
article_path(position) == <<"human", ArticleIds[position], "", "txt">>
UpsertMetadataRow(position) ==
  [op |-> "upsert", path |-> <<"", "metadata", ArticleIds[position], "csv">>]

\* the loop goes on to a further attempt although the last one succeeded
another_attempt_after_success(succeeded, attempts_made, retries) == attempts_made < retries

\* lines 259-268, for attempt in range(1, args.retries + 1): whether the
\* loop makes another attempt after `attempts_made` of them, the last of
\* which succeeded (break) or not
another_attempt(succeeded, attempts_made, retries) ==
  ~succeeded /\ attempts_made < retries

\* len(article.text.split()): the words of the downloaded text; the text of
\* an article that was never downloaded is empty
article_words(item, downloaded) == IF downloaded THEN item.words ELSE 0

\* -------------------------------------------- generate_shadow_dataset.py
\* ai_dir / _human_to_ai_filename(human_file), for the file at a position of
\* the sorted list of human files
ai_file(position) == <<"ai", ArticleIds[position], "", "txt">>

\* What a request to the API comes to: a response with text, a response
\* whose text is empty, an error that says the temperature parameter is not
\* supported, or any other error.
RequestOutcomes == {"text", "empty_text", "temperature_unsupported", "error"}

\* any error is answered with a second request
is_temperature_unsupported_error_any(outcome) ==
  outcome \in {"temperature_unsupported", "error"}

\* _is_temperature_unsupported_error, of the exception a request raised
is_temperature_unsupported_error(outcome) == outcome = "temperature_unsupported"

\* an AI file with content is generated again, whatever the flag
skip_existing_never(ai_non_empty, overwrite_existing) == FALSE

\* line 317: _is_non_empty(ai_file) and not args.overwrite_existing
skip_existing(ai_non_empty, overwrite_existing) == ai_non_empty /\ ~overwrite_existing

\* the four counters of main, one of them one higher
Counted(counters, name) == [counters EXCEPT ![name] = @ + 1]

\* ------------------------------------------------------------------ state
VARIABLES
  call,      \* the arguments of the call in progress
  pc,        \* where the call is
  windows,   \* analyze_tokens / analyze_tokens_batch: the local `windows`
  results,   \* analyze_tokens: the local `results`
  by_ref,    \* analyze_tokens_batch: the local `results`, as its items() in
             \* insertion order: a sequence of <<name, record list>>
  err,       \* the message of the exception raised, "none" while none is
  grouped_files, \* run_tournament: the local `grouped_files`
  cursor,    \* run_tournament: how many files the two loops have been through
  rows,      \* run_tournament: the local `rows`
  frame,     \* run_tournament: the frame written to output_path and returned
  output,    \* _compute_delta_rows: the list returned
  built,     \* the reference builders: the table returned
  ret,       \* the value returned by a call of the other functions
  disk,      \* run_standard_workflow: the paths written, in order
  warned,    \* the warnings issued, in order
  artifacts, \* run_standard_workflow: the local `artifacts`
  index,     \* run_standard_workflow: how many compressions the loop has done;
             \* the scripts: how many entries the loop of main has been through
  attempt,   \* scripts_fetch_human: the attempts made for the entry at hand
  last_error, \* scripts_fetch_human: the local `last_error`, "none" for None
  requests,  \* the scripts: the downloads and API requests issued, in order
  fail_log,  \* the scripts: the lines appended to the failure log, in order
  summary,   \* generate_shadow_dataset: the counters generated,
             \* skipped_existing, skipped_empty_human and failed
  default_config \* config.py: the module's DEFAULT_CONFIG

vars == <<call, pc, windows, results, by_ref, err, grouped_files, cursor, rows, frame, output, built, ret, disk, warned, artifacts, index, attempt, last_error, requests, fail_log, summary, default_config>>
analyzer_vars == <<windows, results, by_ref>>
tournament_vars == <<grouped_files, cursor, rows, frame, output>>
builder_vars == <<built>>
workflow_vars == <<ret, disk, warned, artifacts, index>>
script_vars == <<attempt, last_error, requests, fail_log, summary, default_config>>

\* the variables of a function that is not being called keep these values
AnalyzerIdle == windows = <<>> /\ results = <<>> /\ by_ref = <<>>
TournamentIdle ==
  grouped_files = <<>> /\ cursor = 0 /\ rows = <<>> /\ frame = <<>> /\ output = <<>>
BuilderIdle == built = <<>>
WorkflowIdle ==
  ret = <<>> /\ disk = <<>> /\ warned = <<>> /\ artifacts = <<>> /\ index = 0
ScriptIdle ==
  /\ attempt = 0 /\ last_error = "none" /\ requests = <<>> /\ fail_log = <<>>
  /\ summary = <<>> /\ default_config = <<>>

\* ------------------------------------------ the inputs of an analyzer call
ParamValues == -1..MaxParam
Modes == {"raw", "diff", "mixed"}
LogBases == {0, 50, 100, 200, MATH_E}
Compressions == {"zlib", "rar"}

\* reference tables: token -> probability (as lg); 100 is the probability 2.0,
\* which a loaded table may hold, -3400 a probability below EPSILON
RefPaisa == [t \in {"a"} |-> -100]
RefSynthetic == [t \in {"a", "b"} |-> IF t = "a" THEN -200 ELSE 100]
RefTiny == [t \in {"b"} |-> -3400]

\* a None or empty ref_dicts is <<>>; otherwise its items() in order
RefDictsValues ==
  {<<>>,
   <<<<"paisa", RefPaisa>>, <<"synthetic", RefSynthetic>>>>,
   <<<<"tiny", RefTiny>>, <<"paisa", RefPaisa>>, <<"synthetic", RefSynthetic>>>>}

AnalyzeCalls ==
  [fn : {"analyze_tokens"},
   tokens : TokenSeqs, mode : Modes, window_size : ParamValues,
   step : ParamValues, ref_dict : {None, Some(RefSynthetic)}, ref_dicts : {<<>>},
   log_base : LogBases, compression : Compressions, unknown_prob : {EPSILON}]

BatchCalls ==
  [fn : {"analyze_tokens_batch"},
   tokens : TokenSeqs, mode : Modes, window_size : ParamValues,
   step : ParamValues, ref_dict : {None}, ref_dicts : RefDictsValues,
   log_base : LogBases, compression : Compressions, unknown_prob : {EPSILON}]

Init ==
  /\ \/ call \in AnalyzeCalls
     \/ call \in BatchCalls
  /\ pc = "call"
  /\ windows = <<>>
  /\ results = <<>>
  /\ by_ref = <<>>
  /\ err = "none"
  /\ grouped_files = <<>> /\ cursor = 0 /\ rows = <<>> /\ frame = <<>>
  /\ output = <<>>
  /\ built = <<>>
  /\ WorkflowIdle
  /\ ScriptIdle

\* ------------------------------------------------ analyze_tokens, stepwise
\* lines 170-178: windows = _iter_window_tokens(tokens, window_size, step)
Segment ==
  /\ pc = "call"
  /\ call.fn = "analyze_tokens"
  /\ \E w \in {iter_window_tokens(call.tokens, call.window_size, call.step)} :
        IF w.err # "none"
        THEN /\ pc' = "raised"
             /\ err' = w.err
             /\ UNCHANGED windows
        ELSE /\ pc' = "loop"
             /\ windows' = w.val
             /\ UNCHANGED err
  /\ UNCHANGED <<call, results, by_ref>>
  /\ UNCHANGED <<tournament_vars, builder_vars, workflow_vars>>
  /\ UNCHANGED script_vars

\* lines 181-190: one turn of the loop over enumerate(windows)
AnalyzeNext ==
  /\ pc = "loop"
  /\ Len(results) < Len(windows)
  /\ \E row \in {analyze_window(windows[Len(results) + 1], call.mode,
                                call.ref_dict, call.log_base, call.compression,
                                call.unknown_prob)} :
        IF row.err # "none"
        THEN /\ pc' = "raised"
             /\ err' = row.err
             /\ UNCHANGED results
        ELSE /\ results' = Append(results, WithWindowId(Len(results), row.val))
             /\ UNCHANGED <<pc, err>>
  /\ UNCHANGED <<call, windows, by_ref>>
  /\ UNCHANGED <<tournament_vars, builder_vars, workflow_vars>>
  /\ UNCHANGED script_vars

\* line 191: return results
Return ==
  /\ pc = "loop"
  /\ Len(results) = Len(windows)
  /\ pc' = "returned"
  /\ UNCHANGED <<call, windows, results, by_ref, err>>
  /\ UNCHANGED <<tournament_vars, builder_vars, workflow_vars>>
  /\ UNCHANGED script_vars

\* ------------------------------------------ analyze_tokens_batch, stepwise
\* line 206: windows = _iter_window_tokens(tokens, window_size, step)
BatchSegment ==
  /\ pc = "call"
  /\ call.fn = "analyze_tokens_batch"
  /\ \E w \in {iter_window_tokens(call.tokens, call.window_size, call.step)} :
        IF w.err # "none"
        THEN /\ pc' = "raised"
             /\ err' = w.err
             /\ UNCHANGED windows
        ELSE /\ pc' = "dispatch"
             /\ windows' = w.val
             /\ UNCHANGED err
  /\ UNCHANGED <<call, results, by_ref>>
  /\ UNCHANGED <<tournament_vars, builder_vars, workflow_vars>>
  /\ UNCHANGED script_vars

\* lines 208-227: the raw branch, and the checks of mode and ref_dicts
BatchDispatch ==
  /\ pc = "dispatch"
  /\ IF call.mode = "raw"
     THEN \E r \in {analyze_tokens(call.tokens, "raw", call.window_size, call.step,
                                   None, call.log_base, call.compression,
                                   call.unknown_prob, Some(windows))} :
             IF r.err # "none"
             THEN pc' = "raised" /\ err' = r.err /\ UNCHANGED by_ref
             ELSE pc' = "returned" /\ by_ref' = <<<<"raw", r.val>>>> /\ UNCHANGED err
     ELSE IF call.mode # "diff"
     THEN pc' = "raised" /\ err' = ErrMode /\ UNCHANGED by_ref
     ELSE IF call.ref_dicts = <<>>
     THEN pc' = "raised" /\ err' = ErrRefDicts /\ UNCHANGED by_ref
     ELSE pc' = "refs" /\ UNCHANGED <<by_ref, err>>
  /\ UNCHANGED <<call, windows, results>>
  /\ UNCHANGED <<tournament_vars, builder_vars, workflow_vars>>
  /\ UNCHANGED script_vars

\* lines 228-239: one turn of the loop over ref_dicts.items()
BatchNextRef ==
  /\ pc = "refs"
  /\ Len(by_ref) < Len(call.ref_dicts)
  /\ \E item \in {call.ref_dicts[Len(by_ref) + 1]} :
     \E r \in {analyze_tokens(call.tokens, "diff", call.window_size, call.step,
                              Some(item[2]), call.log_base, call.compression,
                              call.unknown_prob, Some(windows))} :
        IF r.err # "none"
        THEN pc' = "raised" /\ err' = r.err /\ UNCHANGED by_ref
        ELSE by_ref' = Append(by_ref, <<item[1], r.val>>) /\ UNCHANGED <<pc, err>>
  /\ UNCHANGED <<call, windows, results>>
  /\ UNCHANGED <<tournament_vars, builder_vars, workflow_vars>>
  /\ UNCHANGED script_vars

\* line 240: return results
BatchReturn ==
  /\ pc = "refs"
  /\ Len(by_ref) = Len(call.ref_dicts)
  /\ pc' = "returned"
  /\ UNCHANGED <<call, windows, results, by_ref, err>>
  /\ UNCHANGED <<tournament_vars, builder_vars, workflow_vars>>
  /\ UNCHANGED script_vars

Next ==
  \/ Segment \/ AnalyzeNext \/ Return
  \/ BatchSegment \/ BatchDispatch \/ BatchNextRef \/ BatchReturn

Spec == Init /\ [][Next]_vars

\* ---------------------------------------------- _compute_delta_rows alone
\* the window records a caller may hand over: any two lists, of any lengths
MaxRows == 2
RowPool ==
  {[window_id |-> 0, mean_entropy |-> Rat(1, 1), entropy_variance |-> Zero],
   [window_id |-> 1, mean_entropy |-> Rat(3, 2), entropy_variance |-> Rat(1, 4)],
   [window_id |-> 1, mean_entropy |-> Rat(1, 1), entropy_variance |-> Rat(1, 4)]}
RowLists == UNION {[1..n -> RowPool] : n \in 0..MaxRows}

DeltaCalls ==
  [fn : {"_compute_delta_rows"}, filename : {1}, label : {"human", "ai"},
   paisa_rows : RowLists, synthetic_rows : RowLists]

InitDelta ==
  /\ call \in DeltaCalls
  /\ pc = "call"
  /\ err = "none"
  /\ windows = <<>> /\ results = <<>> /\ by_ref = <<>>
  /\ grouped_files = <<>> /\ cursor = 0 /\ rows = <<>> /\ frame = <<>>
  /\ output = <<>>
  /\ built = <<>>
  /\ WorkflowIdle
  /\ ScriptIdle

\* tournament.py lines 21-43
ComputeDeltaRows ==
  /\ pc = "call"
  /\ call.fn = "_compute_delta_rows"
  /\ \E r \in {compute_delta_rows(call.filename, call.label, call.paisa_rows,
                                  call.synthetic_rows)} :
        IF r.err # "none"
        THEN pc' = "raised" /\ err' = r.err /\ UNCHANGED output
        ELSE pc' = "returned" /\ output' = r.val /\ UNCHANGED err
  /\ UNCHANGED <<call, analyzer_vars, grouped_files, cursor, rows, frame, builder_vars, workflow_vars>>
  /\ UNCHANGED script_vars

NextDelta == ComputeDeltaRows

SpecDelta == InitDelta /\ [][NextDelta]_vars

\* ------------------------------------------------ run_tournament, stepwise
\* the files below an input directory and the texts a file may hold
PathPool == {<<1>>, <<0, 2>>, <<9>>}
DocPool == {<<>>, <<"A", "b", "!", "a">>, <<"b">>}

\* an input path: a directory with its files' texts, one file, or nothing
DirInputs ==
  {[kind |-> "dir", path |-> <<>>, files |-> f]
     : f \in UNION {[S -> DocPool] : S \in SUBSET PathPool}}
FileInputs ==
  {[kind |-> "file", path |-> q[1], files |-> [p \in {q[1]} |-> q[2]]]
     : q \in PathPool \X DocPool}
MissingInput == [kind |-> "missing", path |-> <<>>, files |-> <<>>]
Inputs == DirInputs \cup FileInputs \cup {MissingInput}

\* <<window_size, step, log_base>>
TournamentParams == {<<2, 1, 200>>, <<1, 2, 50>>, <<0, 1, 200>>}

TournamentCalls ==
  {[fn |-> "run_tournament", human_input |-> h, ai_input |-> a,
    window_size |-> p[1], step |-> p[2], log_base |-> p[3], compression |-> "lzma"]
     : h \in Inputs, a \in Inputs, p \in TournamentParams}

\* the orders in which rglob may yield the files of a directory
Listings(S) ==
  {l \in [1..Cardinality(S) -> S] : \A i, j \in 1..Cardinality(S) : l[i] = l[j] => i = j}

InitTournament ==
  /\ call \in TournamentCalls
  /\ pc = "call"
  /\ err = "none"
  /\ windows = <<>> /\ results = <<>> /\ by_ref = <<>>
  /\ grouped_files = <<>> /\ cursor = 0 /\ rows = <<>> /\ frame = <<>>
  /\ output = <<>>
  /\ built = <<>>
  /\ WorkflowIdle
  /\ ScriptIdle

\* lines 59-65: the two references load (RefPaisa, RefSynthetic) and the
\* input files are collected, the human ones first
CollectFiles ==
  /\ pc = "call"
  /\ call.fn = "run_tournament"
  /\ \E lh \in Listings(DOMAIN call.human_input.files) :
     \E la \in Listings(DOMAIN call.ai_input.files) :
     \E h \in {collect_input_files(call.human_input, lh)} :
     \E a \in {collect_input_files(call.ai_input, la)} :
        IF h.err # "none"
        THEN pc' = "raised" /\ err' = h.err /\ UNCHANGED grouped_files
        ELSE IF a.err # "none"
        THEN pc' = "raised" /\ err' = a.err /\ UNCHANGED grouped_files
        ELSE /\ pc' = "files"
             /\ grouped_files' = [human |-> h.val, ai |-> a.val]
             /\ UNCHANGED err
  /\ UNCHANGED <<call, analyzer_vars, cursor, rows, frame, output, builder_vars, workflow_vars>>
  /\ UNCHANGED script_vars

\* the file the two loops of lines 68-69 come to after `done` files, as
\* <<label, input, path>>
FileAt(done) ==
  IF done < Len(grouped_files.human)
  THEN <<"human", call.human_input, grouped_files.human[done + 1]>>
  ELSE <<"ai", call.ai_input, grouped_files.ai[done + 1 - Len(grouped_files.human)]>>

FileCount == Len(grouped_files.human) + Len(grouped_files.ai)

\* lines 68-89: one file read, tokenized, analysed against both references
\* and its records appended
ProcessFile ==
  /\ pc = "files"
  /\ cursor < FileCount
  /\ \E file \in {FileAt(cursor)} :
     \E tokens \in {preprocess_text(file[2].files[file[3]])} :
     \E batch \in {analyze_tokens_batch(tokens, "diff", call.window_size, call.step,
                                        <<<<"paisa", RefPaisa>>, <<"synthetic", RefSynthetic>>>>,
                                        call.log_base, call.compression, EPSILON)} :
        IF batch.err # "none"
        THEN pc' = "raised" /\ err' = batch.err /\ UNCHANGED <<rows, cursor>>
        ELSE \E delta \in {compute_delta_rows(PathName(file[3]), file[1],
                                              ItemOf(batch.val, "paisa"),
                                              ItemOf(batch.val, "synthetic"))} :
               IF delta.err # "none"
               THEN pc' = "raised" /\ err' = delta.err /\ UNCHANGED <<rows, cursor>>
               ELSE /\ rows' = rows \o delta.val
                    /\ cursor' = cursor + 1
                    /\ UNCHANGED <<pc, err>>
  /\ UNCHANGED <<call, analyzer_vars, grouped_files, frame, output, builder_vars, workflow_vars>>
  /\ UNCHANGED script_vars

\* lines 91-94: the frame of the rows is written to output_path and returned
WriteFrame ==
  /\ pc = "files"
  /\ cursor = FileCount
  /\ frame' = rows
  /\ pc' = "returned"
  /\ UNCHANGED <<call, analyzer_vars, grouped_files, cursor, rows, output, builder_vars, err, workflow_vars>>
  /\ UNCHANGED script_vars

NextTournament == CollectFiles \/ ProcessFile \/ WriteFrame

SpecTournament == InitTournament /\ [][NextTournament]_vars

\* ------------------------------------------------- the reference builders
Texts == UNION {[1..n -> RawWords] : n \in 0..MaxLen}
SmoothingValues == {Rat(-1, 1), Zero, Rat(1, 2), Rat(1, 1), Rat(5, 2)}

BuilderCalls ==
  [fn : {"build_ref_dict"}, text : Texts, counts : {<<>>},
   smoothing_k : SmoothingValues]
CounterCalls ==
  [fn : {"_build_ref_dict_from_counter"}, text : {<<>>},
   counts : {Counter(t) : t \in TokenSeqs}, smoothing_k : SmoothingValues]

InitRef ==
  /\ \/ call \in BuilderCalls
     \/ call \in CounterCalls
  /\ pc = "call"
  /\ err = "none"
  /\ windows = <<>> /\ results = <<>> /\ by_ref = <<>>
  /\ grouped_files = <<>> /\ cursor = 0 /\ rows = <<>> /\ frame = <<>>
  /\ output = <<>>
  /\ built = <<>>
  /\ WorkflowIdle
  /\ ScriptIdle

\* metrics.py lines 91-111
BuildRefDict ==
  /\ pc = "call"
  /\ call.fn = "build_ref_dict"
  /\ \E r \in {build_ref_dict(call.text, call.smoothing_k)} :
        IF r.err # "none"
        THEN pc' = "raised" /\ err' = r.err /\ UNCHANGED built
        ELSE pc' = "returned" /\ built' = r.val /\ UNCHANGED err
  /\ UNCHANGED <<call, analyzer_vars, tournament_vars, workflow_vars>>
  /\ UNCHANGED script_vars

\* scripts/prepare_resources.py lines 220-230
BuildRefDictFromCounter ==
  /\ pc = "call"
  /\ call.fn = "_build_ref_dict_from_counter"
  /\ \E r \in {build_ref_dict_from_counter(call.counts, call.smoothing_k)} :
        IF r.err # "none"
        THEN pc' = "raised" /\ err' = r.err /\ UNCHANGED built
        ELSE pc' = "returned" /\ built' = r.val /\ UNCHANGED err
  /\ UNCHANGED <<call, analyzer_vars, tournament_vars, workflow_vars>>
  /\ UNCHANGED script_vars

NextRef == BuildRefDict \/ BuildRefDictFromCounter

SpecRef == InitRef /\ [][NextRef]_vars

\* ------------------------------------------ the frequency-list builder
MaxLines == 2
FreqLines ==
  [parts : {0}, word : {"a"}, count : {None}]
    \cup [parts : {1}, word : Tokens, count : {None}]
    \cup [parts : {2, 3}, word : Tokens,
          count : {None, Some(-1), Some(0), Some(1), Some(2)}]
FreqFiles == UNION {[1..n -> FreqLines] : n \in 0..MaxLines}

InitFreq ==
  /\ call \in [fn : {"build_ref_dict_from_frequency_list"}, lines : FreqFiles]
  /\ pc = "call"
  /\ err = "none"
  /\ AnalyzerIdle /\ TournamentIdle /\ BuilderIdle /\ WorkflowIdle
  /\ ScriptIdle

\* metrics.py lines 122-144
BuildRefDictFromFrequencyList ==
  /\ pc = "call"
  /\ call.fn = "build_ref_dict_from_frequency_list"
  /\ \E r \in {build_ref_dict_from_frequency_list(call.lines)} :
        /\ pc' = "returned"
        /\ ret' = r.val
  /\ UNCHANGED <<call, err, analyzer_vars, tournament_vars, builder_vars>>
  /\ UNCHANGED <<disk, warned, artifacts, index>>
  /\ UNCHANGED script_vars

NextFreq == BuildRefDictFromFrequencyList

SpecFreq == InitFreq /\ [][NextFreq]_vars

\* ------------------------------------------------ _compression_ratio alone
\* lzma, gzip, bz2 and zlib all frame their output (magic bytes, checksum),
\* so a compressed text is never empty; its length is otherwise free
MaxCompressed == 3
AlgorithmNames == SUPPORTED_COMPRESSION_ALGOS \cup {"snappy"}

InitCompression ==
  /\ call \in [fn : {"_compression_ratio"}, window_tokens : TokenSeqs,
               algorithm : AlgorithmNames]
  /\ pc = "call"
  /\ err = "none"
  /\ AnalyzerIdle /\ TournamentIdle /\ BuilderIdle /\ WorkflowIdle
  /\ ScriptIdle

\* analyzer.py lines 87-104, on the text " ".join(window_tokens)
CompressionRatio ==
  /\ pc = "call"
  /\ call.fn = "_compression_ratio"
  /\ \E compressed_len \in 1..MaxCompressed :
     \E r \in {compression_ratio_value(JoinedByteLen(call.window_tokens),
                                       call.algorithm, compressed_len)} :
        IF r.err # "none"
        THEN pc' = "raised" /\ err' = r.err /\ UNCHANGED ret
        ELSE pc' = "returned" /\ ret' = r.val /\ UNCHANGED err
  /\ UNCHANGED <<call, analyzer_vars, tournament_vars, builder_vars>>
  /\ UNCHANGED <<disk, warned, artifacts, index>>
  /\ UNCHANGED script_vars

NextCompression == CompressionRatio

SpecCompression == InitCompression /\ [][NextCompression]_vars

\* ------------------------------------------------------ the report tools
MaxFrameRows == 2
FrameRows ==
  [label : {"human", "ai", "Human ", "bot"},
   delta_h : {None, Some(-1), Some(0), Some(1)}]
Frames ==
  [columns : SUBSET {"label", "delta_h"},
   rows : UNION {[1..n -> FrameRows] : n \in 0..MaxFrameRows}]

InitReport ==
  /\ call \in [fn : {"_classification_metrics", "generate_report"}, df : Frames]
  /\ pc = "call"
  /\ err = "none"
  /\ AnalyzerIdle /\ TournamentIdle /\ BuilderIdle /\ WorkflowIdle
  /\ ScriptIdle

\* report_stats.py lines 49-86
ClassificationMetrics ==
  /\ pc = "call"
  /\ call.fn = "_classification_metrics"
  /\ \E r \in {classification_metrics(call.df)} :
        IF r.err # "none"
        THEN pc' = "raised" /\ err' = r.err /\ UNCHANGED ret
        ELSE pc' = "returned" /\ ret' = r.val /\ UNCHANGED err
  /\ UNCHANGED <<call, analyzer_vars, tournament_vars, builder_vars>>
  /\ UNCHANGED <<disk, warned, artifacts, index>>
  /\ UNCHANGED script_vars

\* report_stats.py lines 89-132
GenerateReport ==
  /\ pc = "call"
  /\ call.fn = "generate_report"
  /\ \E r \in {generate_report(call.df)} :
        IF r.err # "none"
        THEN pc' = "raised" /\ err' = r.err /\ UNCHANGED ret
        ELSE pc' = "returned" /\ ret' = r.val /\ UNCHANGED err
  /\ UNCHANGED <<call, analyzer_vars, tournament_vars, builder_vars>>
  /\ UNCHANGED <<disk, warned, artifacts, index>>
  /\ UNCHANGED script_vars

NextReport == ClassificationMetrics \/ GenerateReport

SpecReport == InitReport /\ [][NextReport]_vars

\* ------------------------------------------------------- the tokenizer
ShortTexts == UNION {[1..n -> RawWords] : n \in 0..2}
TokenizationMappings ==
  [method : {None, Some("legacy"), Some("tiktoken"), Some("TikToken"), Some("bpe")},
   encoding_name : {None},
   include_punctuation : {None, Some(TRUE), Some(FALSE)},
   fallback_to_legacy_if_tiktoken_missing : {None, Some(TRUE), Some(FALSE)}]
Tokenizations == {None} \cup {Some(m) : m \in TokenizationMappings}

InitTokenize ==
  /\ \/ call \in [fn : {"preprocess_text"}, text : ShortTexts,
                  tokenization : Tokenizations, tiktoken_installed : BOOLEAN]
     \/ call \in [fn : {"_resolve_tokenization_config"}, text : {<<>>},
                  tokenization : Tokenizations, tiktoken_installed : {TRUE}]
  /\ pc = "call"
  /\ err = "none"
  /\ AnalyzerIdle /\ TournamentIdle /\ BuilderIdle /\ WorkflowIdle
  /\ ScriptIdle

\* analyzer.py lines 35-48
ResolveTokenizationConfig ==
  /\ pc = "call"
  /\ call.fn = "_resolve_tokenization_config"
  /\ pc' = "returned"
  /\ ret' = resolve_tokenization_config(call.tokenization)
  /\ UNCHANGED <<call, err, analyzer_vars, tournament_vars, builder_vars>>
  /\ UNCHANGED <<disk, warned, artifacts, index>>
  /\ UNCHANGED script_vars

\* analyzer.py lines 72-84, with lines 51-69; no line of them issues a
\* warning
PreprocessText ==
  /\ pc = "call"
  /\ call.fn = "preprocess_text"
  /\ \E r \in {preprocess_text_with(call.text, call.tokenization, call.tiktoken_installed)} :
        IF r.err # "none"
        THEN pc' = "raised" /\ err' = r.err /\ UNCHANGED ret
        ELSE pc' = "returned" /\ ret' = r.val /\ UNCHANGED err
  /\ UNCHANGED <<call, analyzer_vars, tournament_vars, builder_vars>>
  /\ UNCHANGED <<disk, warned, artifacts, index>>
  /\ UNCHANGED script_vars

NextTokenize == ResolveTokenizationConfig \/ PreprocessText

SpecTokenize == InitTokenize /\ [][NextTokenize]_vars

\* ---------------------------------------- run_standard_workflow, stepwise
\* the compression names selected, before _resolve_compressions checks them
SelectedLists ==
  {<<>>, <<"lzma">>, <<"lzma", "gzip">>, <<"gzip", "lzma">>, <<"zlib", "zlib">>,
   <<"lzma", "snappy">>}
\* which reference dictionaries exist
RefStates ==
  {[paisa |-> TRUE, synthetic |-> TRUE], [paisa |-> FALSE, synthetic |-> TRUE],
   [paisa |-> TRUE, synthetic |-> FALSE]}

\* `data` is what the inputs hold: "both" rows of both labels, "one_label"
\* rows of one label only, "empty" no row, "no_txt" no .txt file at all
WorkflowCalls ==
  [fn : {"run_standard_workflow"}, workflow : {"human-only"}, selected : SelectedLists,
   refs : RefStates, data : {"both", "no_txt"},
   skip_plots : BOOLEAN, skip_aggregate : BOOLEAN, dry_run : BOOLEAN]
    \cup
  [fn : {"run_standard_workflow"}, workflow : {"tournament"}, selected : SelectedLists,
   refs : RefStates, data : {"both", "one_label", "empty"},
   skip_plots : BOOLEAN, skip_aggregate : BOOLEAN, dry_run : BOOLEAN]

InitWorkflow ==
  /\ call \in WorkflowCalls
  /\ pc = "call"
  /\ err = "none"
  /\ AnalyzerIdle /\ TournamentIdle /\ BuilderIdle /\ WorkflowIdle
  /\ ScriptIdle

\* lines 287-348: the configuration is resolved and checked, the manifest
\* made, and a dry run returns its plan
WorkflowSetup ==
  /\ pc = "call"
  /\ call.fn = "run_standard_workflow"
  /\ \E compressions \in {resolve_compressions(call.selected)} :
     \E missing \in {ensure_reference_paths(call.refs, call.workflow = "tournament")} :
        IF compressions.err # "none"
        THEN pc' = "raised" /\ err' = compressions.err /\ UNCHANGED <<ret, artifacts>>
        ELSE IF missing # "none"
        THEN pc' = "raised" /\ err' = missing /\ UNCHANGED <<ret, artifacts>>
        ELSE IF call.dry_run
        THEN /\ artifacts' = planned_artifacts(call.workflow, compressions.val)
             /\ ret' = Manifest(call.workflow, compressions.val, TRUE, artifacts')
             /\ pc' = "returned"
             /\ UNCHANGED err
        ELSE /\ pc' = "compressions"
             /\ UNCHANGED <<ret, artifacts, err>>
  /\ UNCHANGED <<call, analyzer_vars, tournament_vars, builder_vars, disk, warned, index>>
  /\ UNCHANGED script_vars

\* lines 350-458: one turn of the loop, workflow human-only
HumanOnlyStep ==
  /\ pc = "compressions"
  /\ call.workflow = "human-only"
  /\ index < Len(call.selected)
  /\ LET c == call.selected[index + 1]
         tmp_human == <<"data", ".tmp_human", c, "csv">>
         tmp_ai == <<"data", ".tmp_ai", c, "csv">>
         labeled_out == <<"data", "labeled", c, "csv">>
         doc_out == <<"data", "doc_level", c, "csv">>
         separation_out == <<"data", "separation", c, "csv">>
         box_entropy == <<"plot", "box_mean_entropy_by_label", c, "png">>
         box_compression == <<"plot", "box_compression_ratio_by_label", c, "png">>
         phase_out == <<"plot", "phase_density_mean_entropy_vs_compression_ratio_by_label",
                        c, "html">>
         aggregate == ~call.skip_aggregate
         plots == ~call.skip_plots
     IN IF call.data = "no_txt"
        THEN pc' = "raised" /\ err' = ErrNoTxt /\ UNCHANGED <<disk, artifacts, index>>
        ELSE /\ disk' = disk \o MkdirAndWrite(tmp_human) \o MkdirAndWrite(tmp_ai)
                          \o MkdirAndWrite(labeled_out)
                          \o <<Unlink(tmp_human), Unlink(tmp_ai)>>
                          \o (IF aggregate
                              THEN MkdirAndWrite(doc_out) \o MkdirAndWrite(separation_out)
                              ELSE <<>>)
                          \o (IF plots /\ aggregate
                              THEN MkdirAndWrite(box_entropy) \o MkdirAndWrite(box_compression)
                              ELSE <<>>)
                          \o (IF plots THEN MkdirAndWrite(phase_out) ELSE <<>>)
             /\ artifacts' = artifacts \o <<labeled_out>>
                               \o (IF aggregate THEN <<doc_out, separation_out>> ELSE <<>>)
                               \o (IF plots /\ aggregate
                                   THEN <<box_entropy, box_compression>> ELSE <<>>)
                               \o (IF plots THEN <<phase_out>> ELSE <<>>)
             /\ index' = index + 1
             /\ UNCHANGED <<pc, err>>
  /\ UNCHANGED <<call, analyzer_vars, tournament_vars, builder_vars, ret, warned>>
  /\ UNCHANGED script_vars

\* lines 460-504: one turn of the loop, workflow tournament.  The call of
\* run_tournament binds its keywords first: one that is no parameter of
\* run_tournament raises TypeError before run_tournament does anything.
TournamentStep ==
  /\ pc = "compressions"
  /\ call.workflow = "tournament"
  /\ index < Len(call.selected)
  /\ LET c == call.selected[index + 1]
         tournament_out == <<"data", "delta", c, "csv">>
         report_out == <<"data", "delta", c, "md">>
         separation_out == <<"data", "separation", c, "csv">>
         phase_out == <<"plot", "phase_delta_h_vs_burstiness_paisa", c, "html">>
         box_out == <<"plot", "box_delta_h_by_label", c, "png">>
         separable == call.data = "both"
         plots == ~call.skip_plots /\ call.data # "empty"
     IN IF ~(run_tournament_keywords_passed \subseteq run_tournament_parameters)
        THEN /\ pc' = "raised"
             /\ err' = ErrUnexpectedKeyword
             /\ UNCHANGED <<disk, artifacts, index>>
        ELSE /\ disk' = disk \o MkdirAndWrite(tournament_out) \o MkdirAndWrite(report_out)
                          \o (IF separable THEN MkdirAndWrite(separation_out) ELSE <<>>)
                          \o (IF plots
                              THEN MkdirAndWrite(phase_out) \o MkdirAndWrite(box_out)
                              ELSE <<>>)
             /\ artifacts' = artifacts \o <<tournament_out, report_out>>
                               \o (IF separable THEN <<separation_out>> ELSE <<>>)
                               \o (IF plots THEN <<phase_out, box_out>> ELSE <<>>)
             /\ index' = index + 1
             /\ UNCHANGED <<pc, err>>
  /\ UNCHANGED <<call, analyzer_vars, tournament_vars, builder_vars, ret, warned>>
  /\ UNCHANGED script_vars

\* lines 506-508: the manifest is written, then its own path is appended to
\* the artifacts it holds, and it is returned
WriteManifest ==
  /\ pc = "compressions"
  /\ index = Len(call.selected)
  /\ disk' = disk \o <<Mkdir(""), WriteFile(manifest_path)>>
  /\ artifacts' = Append(artifacts, manifest_path)
  /\ ret' = Manifest(call.workflow, call.selected, FALSE, artifacts')
  /\ pc' = "returned"
  /\ UNCHANGED <<call, err, analyzer_vars, tournament_vars, builder_vars, warned, index>>
  /\ UNCHANGED script_vars

NextWorkflow == WorkflowSetup \/ HumanOnlyStep \/ TournamentStep \/ WriteManifest

SpecWorkflow == InitWorkflow /\ [][NextWorkflow]_vars

\* ------------------------------------------------------------ load_config
\* the sections a configuration file may hold
AnalysisSections ==
  {AbsentSection, ScalarSection, TableSection(Table({}, <<>>)),
   TableSection([window |-> TomlInt(5)]), TableSection([window |-> TomlInt(0)]),
   TableSection([window |-> TomlBool(TRUE)]), TableSection([log_base |-> TomlInt(1)])}
CompressionSections ==
  {AbsentSection, TableSection([algorithm |-> TomlStr("zlib")]),
   TableSection([algorithm |-> TomlStr("snappy")]),
   TableSection([algorithm |-> TomlArray("lzma")])}
TokenizationSections ==
  {AbsentSection, TableSection([method |-> TomlStr("legacy")]),
   TableSection([method |-> TomlStr("unknown")]),
   TableSection([fallback_to_legacy_if_tiktoken_missing |-> TomlStr("yes")]),
   TableSection([fallback_to_legacy_if_tiktoken_missing |-> TomlBool(FALSE)]),
   TableSection([method |-> TomlStr("legacy"),
                 fallback_to_legacy_if_tiktoken_missing |-> TomlBool(FALSE)])}
ReferenceSections ==
  {AbsentSection, TableSection([smoothing_k |-> TomlFloat(-1)]),
   TableSection([smoothing_k |-> TomlFloat(5)]), TableSection([smoothing_k |-> TomlInt(0)]),
   TableSection([paisa_path |-> TomlStr("paisa.json")])}
StandardSections ==
  {AbsentSection, ScalarSection, TableSection([compressions |-> TomlArray("zlib")]),
   TableSection([compressions |-> TomlArray("snappy")])}

ConfigCalls ==
  [fn : {"load_config"},
   data : [analysis : AnalysisSections, compression : CompressionSections,
           tokenization : TokenizationSections, reference : ReferenceSections,
           standard : StandardSections]]

InitConfig ==
  /\ call \in ConfigCalls
  /\ pc = "call"
  /\ err = "none"
  /\ AnalyzerIdle /\ TournamentIdle /\ BuilderIdle /\ WorkflowIdle
  /\ attempt = 0 /\ last_error = "none" /\ requests = <<>> /\ fail_log = <<>>
  /\ summary = <<>>
  /\ default_config = DEFAULT_CONFIG

\* lines 80-104: the file is parsed and merged over the defaults; `ret` holds
\* the local `merged`
MergeConfig ==
  /\ pc = "call"
  /\ call.fn = "load_config"
  /\ \E merged \in {merge_config(default_config, call.data)} :
        IF merged.err # "none"
        THEN pc' = "raised" /\ err' = merged.err /\ UNCHANGED ret
        ELSE pc' = "validate" /\ ret' = merged.val /\ UNCHANGED err
  /\ UNCHANGED <<call, analyzer_vars, tournament_vars, builder_vars>>
  /\ UNCHANGED <<disk, warned, artifacts, index, script_vars>>

\* lines 105-106: _validate_config(merged), then return merged
ValidateConfig ==
  /\ pc = "validate"
  /\ \E problem \in {validate_config(ret)} :
        IF problem # "none"
        THEN pc' = "raised" /\ err' = problem /\ ret' = <<>>
        ELSE pc' = "returned" /\ UNCHANGED <<err, ret>>
  /\ UNCHANGED <<call, analyzer_vars, tournament_vars, builder_vars>>
  /\ UNCHANGED <<disk, warned, artifacts, index, script_vars>>

NextConfig == MergeConfig \/ ValidateConfig

SpecConfig == InitConfig /\ [][NextConfig]_vars

\* ------------------------------------------------------ cli.main, stepwise
\* the arguments argparse can hand over: --mode and --reference have choices
CliCalls ==
  [fn : {"main"},
   mode : {None, Some("raw"), Some("diff")},
   reference : {None, Some("paisa"), Some("synthetic")},
   human_only : BOOLEAN,
   window : {None, Some(5)},
   output : {None, Some("out")}]

InitCli ==
  /\ call \in CliCalls
  /\ pc = "call"
  /\ err = "none"
  /\ AnalyzerIdle /\ TournamentIdle /\ BuilderIdle /\ WorkflowIdle /\ ScriptIdle

\* lines 188-191: mode, reference = _resolve_mode_reference(args)
ResolveModeReference ==
  /\ pc = "call"
  /\ call.fn = "main"
  /\ \E resolved \in {resolve_mode_reference(call)} :
        IF resolved.err # "none"
        THEN pc' = "raised" /\ err' = resolved.err /\ UNCHANGED ret
        ELSE /\ pc' = "resolved"
             /\ ret' = [mode |-> resolved.val[1], reference |-> resolved.val[2],
                        window |-> 0, output |-> ""]
             /\ UNCHANGED err
  /\ UNCHANGED <<call, analyzer_vars, tournament_vars, builder_vars>>
  /\ UNCHANGED <<disk, warned, artifacts, index, script_vars>>

\* lines 193-211: the window and the output path that run_single_analysis is
\* called with
ResolveOutput ==
  /\ pc = "resolved"
  /\ ret' = [ret EXCEPT
               !.window = IF IsNone(call.window) THEN DEFAULT_CONFIG.analysis.window.num
                          ELSE Get(call.window),
               !.output = IF IsNone(call.output)
                          THEN single_output_filename(ret.mode, ret.reference,
                                                      call.human_only)
                          ELSE Get(call.output)]
  /\ pc' = "analysis"
  /\ UNCHANGED <<call, err, analyzer_vars, tournament_vars, builder_vars>>
  /\ UNCHANGED <<disk, warned, artifacts, index, script_vars>>

NextCli == ResolveModeReference \/ ResolveOutput

SpecCli == InitCli /\ [][NextCli]_vars

\* ------------------------------------- the surprisal functions, called alone
\* unknown_prob as lg: EPSILON, 2 ** -5, a value below EPSILON, and 2.0
UnknownProbs == {EPSILON, -500, -3400, 100}
\* a table may be empty
RefTables == {RefPaisa, RefSynthetic, RefTiny, [t \in {} |-> 0]}

SurprisalCalls ==
  [fn : {"surprisal_stats_from_ref"}, tokens : TokenSeqs, ref_dict : RefTables,
   log_base : LogBases, unknown_prob : UnknownProbs]
    \cup
  [fn : {"calculate_surprisal"}, tokens : {<<t>> : t \in Tokens}, ref_dict : RefTables,
   log_base : LogBases, unknown_prob : UnknownProbs]

InitSurprisal ==
  /\ call \in SurprisalCalls
  /\ pc = "call"
  /\ err = "none"
  /\ AnalyzerIdle /\ TournamentIdle /\ BuilderIdle /\ WorkflowIdle /\ ScriptIdle

\* metrics.py lines 78-88
SurprisalStatsFromRef ==
  /\ pc = "call"
  /\ call.fn = "surprisal_stats_from_ref"
  /\ \E r \in {surprisal_stats_from_ref(call.tokens, call.ref_dict, call.log_base,
                                        call.unknown_prob)} :
        IF r.err # "none"
        THEN pc' = "raised" /\ err' = r.err /\ UNCHANGED ret
        ELSE pc' = "returned" /\ ret' = r.val /\ UNCHANGED err
  /\ UNCHANGED <<call, analyzer_vars, tournament_vars, builder_vars>>
  /\ UNCHANGED <<disk, warned, artifacts, index, script_vars>>

\* metrics.py lines 50-62; the token is call.tokens[1]
CalculateSurprisal ==
  /\ pc = "call"
  /\ call.fn = "calculate_surprisal"
  /\ \E r \in {calculate_surprisal(call.tokens[1], call.ref_dict, call.log_base,
                                   call.unknown_prob)} :
        IF r.err # "none"
        THEN pc' = "raised" /\ err' = r.err /\ UNCHANGED ret
        ELSE pc' = "returned" /\ ret' = r.val /\ UNCHANGED err
  /\ UNCHANGED <<call, analyzer_vars, tournament_vars, builder_vars>>
  /\ UNCHANGED <<disk, warned, artifacts, index, script_vars>>

NextSurprisal == SurprisalStatsFromRef \/ CalculateSurprisal

SpecSurprisal == InitSurprisal /\ [][NextSurprisal]_vars

\* ---------------------------------------- scripts_fetch_human.main, stepwise
\* longest URL list, and largest --retries
MaxUrls == 2
MaxRetries == 2

\* an entry of the URL list: whether it has a url, the words of its article,
\* and whether its <id>_human.txt exists with content
UrlEntries == [url : BOOLEAN, words : 0..1, existing : BOOLEAN]
FetchCalls ==
  [fn : {"fetch_main"},
   urls : UNION {[1..n -> UrlEntries] : n \in 0..MaxUrls},
   retries : 0..MaxRetries,
   min_words : 0..1,
   overwrite_existing_id : BOOLEAN]

InitFetch ==
  /\ call \in FetchCalls
  /\ pc = "entry"
  /\ err = "none"
  /\ AnalyzerIdle /\ TournamentIdle /\ BuilderIdle /\ WorkflowIdle /\ ScriptIdle

\* the attempts of the entry at hand that succeeded
Succeeded(position) ==
  {i \in 1..Len(requests) : requests[i].entry = position /\ requests[i].ok}

\* lines 249-258: the next entry of `for item in urls`
FetchNextEntry ==
  /\ pc = "entry"
  /\ call.fn = "fetch_main"
  /\ index < Len(call.urls)
  /\ IF ~call.urls[index + 1].url
     THEN index' = index + 1 /\ UNCHANGED <<pc, attempt, last_error>>
     ELSE /\ attempt' = 0
          /\ last_error' = "none"
          /\ pc' = IF another_attempt(FALSE, 0, call.retries) THEN "download" ELSE "downloaded"
          /\ UNCHANGED index
  /\ UNCHANGED <<call, err, analyzer_vars, tournament_vars, builder_vars>>
  /\ UNCHANGED <<ret, disk, warned, artifacts, requests, fail_log, summary, default_config>>

\* lines 259-268: one attempt, article.download() and article.parse(), which
\* succeeds or raises
FetchAttempt ==
  /\ pc = "download"
  /\ \E ok \in BOOLEAN :
       /\ requests' = Append(requests, [entry |-> index + 1, ok |-> ok])
       /\ attempt' = attempt + 1
       /\ last_error' = IF ok THEN "none" ELSE "failed"
       /\ pc' = IF another_attempt(ok, attempt', call.retries)
                THEN "download" ELSE "downloaded"
  /\ UNCHANGED <<call, err, analyzer_vars, tournament_vars, builder_vars>>
  /\ UNCHANGED <<ret, disk, warned, artifacts, index, fail_log, summary, default_config>>

\* lines 269-298: after the attempts, the failure is logged, or the article
\* is skipped, or it is written with its metadata row
FetchStore ==
  /\ pc = "downloaded"
  /\ LET position == index + 1
         item == call.urls[position]
     IN IF last_error # "none"
        THEN fail_log' = Append(fail_log, position) /\ UNCHANGED disk
        ELSE IF article_words(item, Succeeded(position) # {}) < call.min_words
        THEN UNCHANGED <<fail_log, disk>>
        ELSE IF item.existing /\ ~call.overwrite_existing_id
        THEN UNCHANGED <<fail_log, disk>>
        ELSE /\ disk' = disk \o <<WriteFile(article_path(position)),
                                  UpsertMetadataRow(position)>>
             /\ UNCHANGED fail_log
  /\ index' = index + 1
  /\ pc' = "entry"
  /\ UNCHANGED <<call, err, analyzer_vars, tournament_vars, builder_vars>>
  /\ UNCHANGED <<ret, warned, artifacts, attempt, last_error, requests, summary, default_config>>

\* the loop is over
FetchReturn ==
  /\ pc = "entry"
  /\ call.fn = "fetch_main"
  /\ index = Len(call.urls)
  /\ pc' = "returned"
  /\ UNCHANGED <<call, err, analyzer_vars, tournament_vars, builder_vars>>
  /\ UNCHANGED <<workflow_vars, script_vars>>

NextFetch == FetchNextEntry \/ FetchAttempt \/ FetchStore \/ FetchReturn

SpecFetch == InitFetch /\ [][NextFetch]_vars

\* ----------------------------------- generate_shadow_dataset.main, stepwise
\* most human files selected
MaxFiles == 2

\* a human file: whether its text is empty, and whether its AI file exists
\* with content
HumanFiles == [empty : BOOLEAN, ai_non_empty : BOOLEAN]
ShadowCalls ==
  [fn : {"shadow_main"},
   human_files : UNION {[1..n -> HumanFiles] : n \in 0..MaxFiles},
   overwrite_existing : BOOLEAN,
   dry_run : BOOLEAN]

\* lines 304-307: the counters start at 0
InitShadow ==
  /\ call \in ShadowCalls
  /\ pc = "file"
  /\ err = "none"
  /\ AnalyzerIdle /\ TournamentIdle /\ BuilderIdle /\ WorkflowIdle
  /\ attempt = 0 /\ last_error = "none" /\ requests = <<>> /\ fail_log = <<>>
  /\ default_config = <<>>
  /\ summary = [generated |-> 0, skipped_existing |-> 0, skipped_empty_human |-> 0,
                failed |-> 0]

\* failed += 1 and _log_failure, then continue
ShadowFailed ==
  /\ summary' = Counted(summary, "failed")
  /\ fail_log' = Append(fail_log, index + 1)
  /\ index' = index + 1
  /\ pc' = "file"

\* lines 310-328: the next human file; it is skipped, or counted by a dry
\* run, or goes on to the first request
ShadowNextFile ==
  /\ pc = "file"
  /\ call.fn = "shadow_main"
  /\ index < Len(call.human_files)
  /\ LET human_file == call.human_files[index + 1]
     IN IF human_file.empty
        THEN summary' = Counted(summary, "skipped_empty_human")
               /\ index' = index + 1 /\ UNCHANGED pc
        ELSE IF skip_existing(human_file.ai_non_empty, call.overwrite_existing)
        THEN summary' = Counted(summary, "skipped_existing")
               /\ index' = index + 1 /\ UNCHANGED pc
        ELSE IF call.dry_run
        THEN summary' = Counted(summary, "generated")
               /\ index' = index + 1 /\ UNCHANGED pc
        ELSE pc' = "request" /\ UNCHANGED <<summary, index>>
  /\ UNCHANGED <<call, err, analyzer_vars, tournament_vars, builder_vars>>
  /\ UNCHANGED <<ret, disk, warned, artifacts, attempt, last_error, requests, fail_log,
                 default_config>>

\* lines 331-347: the first request, with the temperature
ShadowFirstRequest ==
  /\ pc = "request"
  /\ \E outcome \in RequestOutcomes :
       /\ requests' = Append(requests, [file |-> index + 1, include_temperature |-> TRUE,
                                        outcome |-> outcome])
       /\ IF outcome \in {"text", "empty_text"}
          THEN pc' = "response" /\ UNCHANGED <<summary, fail_log, index>>
          ELSE IF is_temperature_unsupported_error(outcome)
          THEN pc' = "retry" /\ UNCHANGED <<summary, fail_log, index>>
          ELSE ShadowFailed
  /\ UNCHANGED <<call, err, analyzer_vars, tournament_vars, builder_vars>>
  /\ UNCHANGED <<ret, disk, warned, artifacts, attempt, last_error, default_config>>

\* lines 348-363: the second request, without the temperature
ShadowRetry ==
  /\ pc = "retry"
  /\ \E outcome \in RequestOutcomes :
       /\ requests' = Append(requests, [file |-> index + 1, include_temperature |-> FALSE,
                                        outcome |-> outcome])
       /\ IF outcome \in {"text", "empty_text"}
          THEN pc' = "response" /\ UNCHANGED <<summary, fail_log, index>>
          ELSE ShadowFailed
  /\ UNCHANGED <<call, err, analyzer_vars, tournament_vars, builder_vars>>
  /\ UNCHANGED <<ret, disk, warned, artifacts, attempt, last_error, default_config>>

\* lines 364-374: the text of the response is written, or its absence is a
\* failure
ShadowWrite ==
  /\ pc = "response"
  /\ IF requests[Len(requests)].outcome = "text"
     THEN /\ disk' = Append(disk, WriteFile(ai_file(index + 1)))
          /\ summary' = Counted(summary, "generated")
          /\ index' = index + 1
          /\ pc' = "file"
          /\ UNCHANGED fail_log
     ELSE ShadowFailed /\ UNCHANGED disk
  /\ UNCHANGED <<call, err, analyzer_vars, tournament_vars, builder_vars>>
  /\ UNCHANGED <<ret, warned, artifacts, attempt, last_error, requests, default_config>>

\* lines 376-382: the loop is over, the counters are printed
ShadowReturn ==
  /\ pc = "file"
  /\ call.fn = "shadow_main"
  /\ index = Len(call.human_files)
  /\ pc' = "returned"
  /\ UNCHANGED <<call, err, analyzer_vars, tournament_vars, builder_vars>>
  /\ UNCHANGED <<workflow_vars, script_vars>>

NextShadow ==
  ShadowNextFile \/ ShadowFirstRequest \/ ShadowRetry \/ ShadowWrite \/ ShadowReturn

SpecShadow == InitShadow /\ [][NextShadow]_vars

\* ================================================================== claims
Terminal == pc \in {"returned", "raised"}
ValidWindowing == call.window_size > 0 /\ call.step > 0
\* every record built so far, by analyze_tokens or by the batch
AllRows ==
  {results[i] : i \in 1..Len(results)}
    \cup UNION {{by_ref[k][2][i] : i \in 1..Len(by_ref[k][2])} : k \in 1..Len(by_ref)}

\* C1: with window_size w > 0 and step s > 0, a sequence of L tokens is cut
\* into floor((L - w) / s) + 1 windows when L >= w, one window when
\* 0 < L < w and none when L = 0; for L >= w window i is
\* tokens[i*s : i*s + w]; analyze_tokens returns as many records, and for
\* L = 0 it returns the empty list without raising.
C1_SegmentationLaw ==
  (ValidWindowing /\ pc # "call") =>
    LET L == Len(call.tokens)
        w == call.window_size
        s == call.step
        expected == IF L >= w THEN (L - w) \div s + 1
                    ELSE IF L > 0 THEN 1 ELSE 0
    IN /\ Len(windows) = expected
       /\ L >= w =>
            \A i \in 1..Len(windows) :
              /\ Len(windows[i]) = w
              /\ \A j \in 1..w : windows[i][j] = call.tokens[(i - 1) * s + j]
       /\ (pc = "returned" /\ call.fn = "analyze_tokens") => Len(results) = expected
       /\ (L = 0 /\ call.fn = "analyze_tokens") => (pc # "raised" /\ results = <<>>)

\* C1 witness: a returned call with two windows and leftover tokens
C1_Witness ==
  /\ pc = "returned" /\ call.fn = "analyze_tokens"
  /\ Len(results) = 2
  /\ (Len(call.tokens) - call.window_size) % call.step # 0

\* C2: in analyze_tokens_batch in diff mode every reference's record list
\* has one record per shared window, the same window_id sequence, and
\* record i holds the surprisal statistics of window i against that
\* reference.
C2_BatchPairing ==
  (call.fn = "analyze_tokens_batch" /\ call.mode = "diff") =>
    \A k \in 1..Len(by_ref) :
      /\ by_ref[k][1] = call.ref_dicts[k][1]
      /\ Len(by_ref[k][2]) = Len(windows)
      /\ \A j \in 1..Len(by_ref) :
           /\ Len(by_ref[j][2]) = Len(by_ref[k][2])
           /\ \A i \in 1..Len(by_ref[k][2]) :
                by_ref[j][2][i].window_id = by_ref[k][2][i].window_id
      /\ \A i \in 1..Len(by_ref[k][2]) :
           LET stats == surprisal_stats_from_ref(windows[i], call.ref_dicts[k][2],
                                                 call.log_base, call.unknown_prob)
           IN /\ by_ref[k][2][i].mean_entropy = stats.val[1]
              /\ by_ref[k][2][i].entropy_variance = stats.val[2]

\* C2 witness: a returned batch over three references, two windows each,
\* whose first records differ between references
C2_Witness ==
  /\ pc = "returned" /\ call.fn = "analyze_tokens_batch" /\ call.mode = "diff"
  /\ Len(by_ref) = 3
  /\ Len(by_ref[1][2]) >= 2
  /\ by_ref[1][2][1].mean_entropy # by_ref[2][2][1].mean_entropy

\* C6 (as claimed): for any token sequence, a call whose mode is neither
\* 'raw' nor 'diff' ends with the mode error, and a diff call without a
\* reference ends with the missing-reference error; neither returns.
C6_ModeAndReferenceChecked ==
  (Terminal /\ ValidWindowing) =>
    /\ call.mode \notin {"raw", "diff"} => (pc = "raised" /\ err = ErrMode)
    /\ ( /\ call.mode = "diff"
         /\ \/ call.fn = "analyze_tokens" /\ IsNone(call.ref_dict)
            \/ call.fn = "analyze_tokens_batch" /\ call.ref_dicts = <<>> )
         => (pc = "raised" /\ err \in {ErrRefDict, ErrRefDicts})

C8_ConfigurationCheckedAtEntry ==
  ( /\ Terminal
    /\ \/ validate_log_base(call.log_base) # "none"
       \/ call.compression \notin SUPPORTED_COMPRESSION_ALGOS )
    => pc = "raised"

\* C9 (as claimed): every record's mean_entropy is >= 0, for every valid
\* log base, those between 0 and 1 included.
C9_EntropyNonNegative ==
  \A row \in AllRows : RatGeq0(row.mean_entropy)

\* C9 (amended): mean_entropy is >= 0 for a log base above 1 and <= 0 for
\* a log base strictly between 0 and 1.
C9_EntropySignFollowsBase ==
  \A row \in AllRows :
    /\ call.log_base > 100 => RatGeq0(row.mean_entropy)
    /\ call.log_base < 100 => RatLeq0(row.mean_entropy)

\* C9 witness: a diff-mode record in base 2 with positive mean surprisal
C9_Witness ==
  /\ pc = "returned" /\ call.mode = "diff" /\ call.log_base = 200
  /\ \E row \in AllRows : row.mean_entropy.n > 0

\* ------------------------------------------------------ the tournament
\* C3: when the two record lists handed to _compute_delta_rows differ in
\* length the call raises the mismatch error and returns no record: the
\* pairing is neither cut to the shorter list nor padded to the longer.
C3_UnequalLengthsRejected ==
  (pc # "call" /\ Len(call.paisa_rows) # Len(call.synthetic_rows)) =>
    /\ pc = "raised"
    /\ err = ErrMismatch
    /\ output = <<>>

\* C3 witness: two records against one, rejected
C3_Witness ==
  /\ pc = "raised"
  /\ Len(call.paisa_rows) = 2 /\ Len(call.synthetic_rows) = 1

RECURSIVE Flatten(_)
Flatten(ss) == IF ss = <<>> THEN <<>> ELSE Head(ss) \o Flatten(Tail(ss))

\* the windows of the file the loops reach after `done` files
WindowsOfFile(done) ==
  LET file == FileAt(done)
  IN iter_window_tokens(preprocess_text(file[2].files[file[3]]),
                        call.window_size, call.step).val

\* the Tournament Records that file owes, computed from the two references
ExpectedRows(done) ==
  LET file == FileAt(done)
      ws == WindowsOfFile(done)
  IN [i \in 1..Len(ws) |->
        LET against_a == surprisal_stats_from_ref(ws[i], RefPaisa, call.log_base, EPSILON).val
            against_b == surprisal_stats_from_ref(ws[i], RefSynthetic, call.log_base, EPSILON).val
        IN [filename |-> PathName(file[3]),
            window_id |-> i - 1,
            label |-> file[1],
            delta_h |-> RatAdd(against_a[1], RatNeg(against_b[1])),
            burstiness_paisa |-> against_a[2]]]

\* C4: for every document gone through and every window index i the
\* tournament holds exactly one record, with delta_h the mean surprisal
\* against paisa minus that against synthetic at window i, burstiness_paisa
\* the surprisal variance against paisa at i, window_id i, and the
\* document's filename and label; the returned frame holds just these.
C4_OneSignedDeltaPerWindow ==
  (call.window_size > 0 /\ pc \in {"files", "returned"}) =>
    /\ rows = Flatten([k \in 1..cursor |-> ExpectedRows(k - 1)])
    /\ pc = "returned" => (cursor = FileCount /\ frame = rows)

\* C4 witness: a returned frame with both labels and deltas of both signs
C4_Witness ==
  /\ pc = "returned"
  /\ \E i, j \in 1..Len(frame) :
       /\ frame[i].label = "human" /\ frame[j].label = "ai"
       /\ frame[i].delta_h.n < 0 /\ frame[j].delta_h.n > 0
  /\ \E i \in 1..Len(frame) : frame[i].window_id = 1

\* C5 (as claimed): the returned records are in filename order and, within
\* one document, in ascending window_id.
C5_OrderedByFilename ==
  pc = "returned" =>
    \A i, j \in 1..Len(frame) :
      i < j =>
        \/ frame[i].filename < frame[j].filename
        \/ /\ frame[i].filename = frame[j].filename
           /\ frame[i].label = frame[j].label => frame[i].window_id < frame[j].window_id

\* the <<label, filename, window_id>> of each record, in order
RowKeys(rs) == [i \in 1..Len(rs) |-> <<rs[i].label, rs[i].filename, rs[i].window_id>>]

\* C5 (amended): the records come by label group, human then ai; within a
\* group by ascending path of the .txt files below the input directory,
\* whatever order the directory listing gave them in; within a document by
\* ascending window_id from 0.
C5_OrderedByGroupThenPath ==
  pc \in {"files", "returned"} =>
    /\ \A label \in {"human", "ai"} :
         LET files == grouped_files[label]
             input == IF label = "human" THEN call.human_input ELSE call.ai_input
         IN /\ \A i, j \in 1..Len(files) : i < j => PathLess(files[i], files[j])
            /\ input.kind = "dir" =>
                 {files[i] : i \in 1..Len(files)} = {p \in DOMAIN input.files : IsTxt(p)}
    /\ call.window_size > 0 =>
         RowKeys(rows) =
           Flatten([k \in 1..cursor |->
                      [i \in 1..Len(WindowsOfFile(k - 1)) |->
                         <<FileAt(k - 1)[1], PathName(FileAt(k - 1)[3]), i - 1>>]])

\* C5 witness: a returned frame over a human directory whose path order is
\* not its filename order, followed by records of an ai file
C5_Witness ==
  /\ pc = "returned"
  /\ call.human_input.kind = "dir"
  /\ Len(grouped_files.human) = 2 /\ Len(grouped_files.ai) >= 1
  /\ Cardinality(DOMAIN call.human_input.files) = 3
  /\ \E i, j, k \in 1..Len(frame) :
       /\ i < j /\ j < k
       /\ frame[i].label = "human" /\ frame[j].label = "human" /\ frame[k].label = "ai"
       /\ frame[i].filename > frame[j].filename

\* ------------------------------------------------- the reference builders
\* C10: for a non-empty corpus of T tokens, V of them distinct, the built
\* table gives token t the probability count(t) / T when smoothing_k = 0
\* and (count(t) + k) / (T + k * V) when smoothing_k = k > 0, and its
\* probabilities sum to 1, in build_ref_dict and in
\* _build_ref_dict_from_counter alike.
C10_SmoothedProbabilitiesSumToOne ==
  LET counts == IF call.fn = "build_ref_dict"
                THEN Counter(legacy_preprocess_text(call.text)) ELSE call.counts
      T == SumValues(counts, DOMAIN counts)
      V == Cardinality(DOMAIN counts)
      k == call.smoothing_k
  IN (pc # "call" /\ T > 0 /\ k.n >= 0) =>
       /\ pc = "returned"
       /\ DOMAIN built = DOMAIN counts
       /\ \A t \in DOMAIN built :
            built[t].n * (T * k.d + k.n * V) = built[t].d * (counts[t] * k.d + k.n)
       /\ RatSumOver(built, DOMAIN built) = Rat(1, 1)

\* C10 witness: a table over two tokens of counts 2 and 1, built from a
\* corpus text with smoothing_k = 1/2
C10_Witness ==
  /\ pc = "returned"
  /\ call.smoothing_k = Rat(1, 2)
  /\ call.fn = "build_ref_dict"
  /\ DOMAIN built = {"a", "b"}
  /\ built["a"] = Rat(5, 8) /\ built["b"] = Rat(3, 8)

\* the counts the call in progress builds its table from
CallCounts ==
  IF call.fn = "build_ref_dict"
  THEN Counter(legacy_preprocess_text(call.text)) ELSE call.counts

\* the table the same builder gives the same corpus under another smoothing_k
TableUnder(k) ==
  IF call.fn = "build_ref_dict"
  THEN build_ref_dict(call.text, k).val
  ELSE build_ref_dict_from_counter(call.counts, k).val

RatLess(x, y) == x.n * y.d < y.n * x.d

\* C11: with smoothing_k > 0 every observed token has a probability > 0,
\* and the probability of a most frequent token of a corpus never grows
\* with smoothing_k: for k2 > k1 >= 0 it is no larger under k2, and
\* strictly smaller when some other token has a smaller count.
C11_SmoothingLowersTheTop ==
  (pc = "returned" /\ built # <<>>) =>
    LET counts == CallCounts
        k1 == call.smoothing_k
    IN /\ k1.n > 0 => \A t \in DOMAIN counts : built[t].n > 0
       /\ \A top \in DOMAIN counts :
            (\A t \in DOMAIN counts : counts[t] <= counts[top]) =>
              \A k2 \in SmoothingValues :
                RatLess(k1, k2) =>
                  /\ ~RatLess(built[top], TableUnder(k2)[top])
                  /\ (\E t \in DOMAIN counts : counts[t] < counts[top])
                       => RatLess(TableUnder(k2)[top], built[top])

\* C11 witness: a table built from counts 3 and 1 with smoothing_k = 1/2,
\* its top probability below the unsmoothed 3/4
C11_Witness ==
  /\ pc = "returned"
  /\ call.fn = "_build_ref_dict_from_counter"
  /\ call.smoothing_k = Rat(1, 2)
  /\ DOMAIN built = {"a", "b"}
  /\ built["a"] = Rat(7, 10) /\ built["b"] = Rat(3, 10)

\* C12: a builder called with smoothing_k < 0 raises the smoothing error
\* and builds nothing, whatever the corpus; with smoothing_k >= 0 and a
\* corpus of no token it returns the empty table.
C12_NegativeRejectedEmptyIsEmpty ==
  pc # "call" =>
    /\ call.smoothing_k.n < 0 =>
         (pc = "raised" /\ err = ErrSmoothing /\ built = <<>>)
    /\ (call.smoothing_k.n >= 0 /\ DOMAIN CallCounts = {}) =>
         (pc = "returned" /\ built = <<>>)

\* C12 witness: smoothing_k = -1 on a corpus text of punctuation only,
\* which has no token, rejected
C12_Witness ==
  /\ pc = "raised" /\ err = ErrSmoothing
  /\ call.fn = "build_ref_dict"
  /\ call.text = <<"!">>
  /\ call.smoothing_k.n < 0

\* C13 (as claimed): every table a builder returns, the table of
\* build_ref_dict_from_frequency_list on any file included, has every
\* probability in (0, 1] and probabilities that sum to 1.
C13_TableIsADistribution ==
  (pc = "returned" /\ DOMAIN ret # {}) =>
    /\ \A w \in DOMAIN ret : ret[w].n > 0 /\ ret[w].n <= ret[w].d
    /\ RatSumOver(ret, DOMAIN ret) = Rat(1, 1)

\* C14: under each of lzma, gzip, bz2 and zlib the ratio of the empty text
\* is exactly 0 and returned without error, and the ratio of a non-empty
\* text is compressed length over raw length, above 0; a call with any
\* other algorithm name raises the compression error.
C14_CompressionRatio ==
  pc # "call" =>
    LET raw_len == JoinedByteLen(call.window_tokens)
    IN IF call.algorithm \in {"lzma", "gzip", "bz2", "zlib"}
       THEN /\ pc = "returned"
            /\ raw_len = 0 => ret = Zero
            /\ raw_len > 0 =>
                 /\ \E compressed_len \in 1..MaxCompressed :
                      ret.n * raw_len = compressed_len * ret.d
                 /\ ret.n > 0 /\ ret.d > 0
       ELSE pc = "raised" /\ err = ErrCompression

\* C14 witness: a three-byte text compressed by bz2 to two bytes
C14_Witness ==
  /\ pc = "returned"
  /\ call.algorithm = "bz2"
  /\ call.window_tokens = <<"a", "b">>
  /\ ret = Rat(2, 3)

\* the metrics of the call in progress, None when there are none
ReportedMetrics ==
  IF call.fn = "generate_report" THEN ret.metrics ELSE ret

\* C16 (as claimed): a row is predicted human exactly when its delta_h is
\* < 0: tp counts the human rows with delta_h < 0, fn the other human rows,
\* fp the ai rows with delta_h < 0, tn the other ai rows; and the report
\* heads its metrics with the rule 'delta_h < 0 is Human'.
C16_NegativeDeltaIsHuman ==
  pc = "returned" =>
    /\ ~IsNone(ReportedMetrics) =>
         LET valid == ValidRows(call.df)
             m == Get(ReportedMetrics)
             Human(r) == NormalLabel(r.label) = "human"
             Negative(r) == Get(r.delta_h) < 0
         IN /\ m.tp = Cardinality({i \in 1..Len(valid) : Human(valid[i]) /\ Negative(valid[i])})
            /\ m.fn = Cardinality({i \in 1..Len(valid) : Human(valid[i]) /\ ~Negative(valid[i])})
            /\ m.fp = Cardinality({i \in 1..Len(valid) : ~Human(valid[i]) /\ Negative(valid[i])})
            /\ m.tn = Cardinality({i \in 1..Len(valid) : ~Human(valid[i]) /\ ~Negative(valid[i])})
    /\ call.fn = "generate_report" =>
         ret.heading = "## Classification Metrics (Rule: delta_h < 0 is Human)"

\* ------------------------------------------------------- the tokenizer
\* C18 (as claimed): with no tokenization supplied the resolved
\* configuration has method 'tiktoken' and
\* fallback_to_legacy_if_tiktoken_missing = true, as the tokenization
\* section of config.DEFAULT_CONFIG has.
C18_DefaultTokenizationIsTiktoken ==
  (pc = "returned" /\ call.fn = "_resolve_tokenization_config"
     /\ IsNone(call.tokenization)) =>
    /\ ret.method = "tiktoken"
    /\ ret.method = DEFAULT_CONFIG_tokenization.method
    /\ "fallback_to_legacy_if_tiktoken_missing" \in DOMAIN ret
    /\ ret.fallback_to_legacy_if_tiktoken_missing = TRUE

\* C19 (as claimed): when method 'tiktoken' is asked for and tiktoken cannot
\* be imported, the call returns the legacy tokens, with a warning, if the
\* mapping's fallback_to_legacy_if_tiktoken_missing is true, and raises
\* ModuleNotFoundError, returning nothing, if it is false.
C19_FallbackFollowsTheFlag ==
  ( /\ pc \in {"returned", "raised"}
    /\ call.fn = "preprocess_text"
    /\ ~call.tiktoken_installed
    /\ ~IsNone(call.tokenization)
    /\ LowerMethod(GetOr(Get(call.tokenization).method, "none")) = "tiktoken"
    /\ ~IsNone(Get(call.tokenization).fallback_to_legacy_if_tiktoken_missing) ) =>
      IF Get(Get(call.tokenization).fallback_to_legacy_if_tiktoken_missing)
      THEN /\ pc = "returned"
           /\ ret = legacy_preprocess_text(call.text)
           /\ warned # <<>>
      ELSE /\ pc = "raised"
           /\ ret = <<>>

\* the paths written to, in the order of the writes
Written == SelectSeq(disk, LAMBDA event : event.op = "write")
PositionsOf(path) == {i \in 1..Len(Written) : Written[i].path = path}
ValidTournamentRun ==
  /\ call.fn = "run_standard_workflow"
  /\ call.workflow = "tournament"
  /\ ~call.dry_run
  /\ resolve_compressions(call.selected).err = "none"
  /\ ensure_reference_paths(call.refs, TRUE) = "none"

\* C17: a tournament workflow whose configuration is valid runs to
\* completion; for every configured compression c, in order, it has written
\* data/delta_c.csv and then data/delta_c.md, and run_manifest.json is the
\* last file written.
C17_TournamentWorkflowCompletes ==
  (ValidTournamentRun /\ Terminal) =>
     /\ pc = "returned"
     /\ \A i \in 1..Len(call.selected) :
          \E a \in PositionsOf(<<"data", "delta", call.selected[i], "csv">>) :
          \E b \in PositionsOf(<<"data", "delta", call.selected[i], "md">>) :
             /\ a < b
             /\ \A j \in 1..Len(call.selected) :
                  (i < j /\ call.selected[i] # call.selected[j]) =>
                     \E later \in PositionsOf(<<"data", "delta", call.selected[j], "csv">>) :
                        b < later
     /\ Written # <<>>
     /\ Written[Len(Written)].path = manifest_path

\* the compression a planned artifact is of, and the artifacts of one
PlannedOf(c) == {ret.artifacts[i] : i \in {j \in 1..Len(ret.artifacts) : ret.artifacts[j][3] = c}}
\* C20: a dry run creates no directory and writes no file, at any point of
\* the run; the manifest it returns has dry_run true and a non-empty list of
\* artifacts, none of them the manifest itself, each of a configured
\* compression and under data/ or plots/, and every configured compression
\* has its planned outputs in the list, its main CSV among them.
C20_DryRunOnlyPlans ==
  (call.fn = "run_standard_workflow" /\ call.dry_run) =>
     /\ disk = <<>>
     /\ pc = "returned" =>
          /\ ret.dry_run = TRUE
          /\ ret.artifacts # <<>>
          /\ manifest_path \notin SeqRange(ret.artifacts)
          /\ \A path \in SeqRange(ret.artifacts) :
               /\ path[3] \in SeqRange(call.selected)
               /\ path[1] \in {"data", "plot"}
               /\ path[4] \in {"csv", "md", "png", "html"}
          /\ \A c \in SeqRange(call.selected) :
               /\ <<"data", IF call.workflow = "tournament" THEN "delta" ELSE "labeled", c, "csv">>
                    \in PlannedOf(c)
               /\ <<"data", "separation", c, "csv">> \in PlannedOf(c)
               /\ Cardinality(PlannedOf(c)) = IF call.workflow = "tournament" THEN 5 ELSE 6
C20_Witness ==
  /\ call.fn = "run_standard_workflow"
  /\ call.dry_run
  /\ call.selected = <<"lzma", "gzip">>
  /\ pc = "returned"
  /\ disk = <<>>
  /\ Len(ret.artifacts) = 12
\* the value the file gives for a key of a section, if it gives one
FileGives(section, key) ==
  call.data[section].shape = "table" /\ key \in DOMAIN call.data[section].table
FileValue(section, key) == call.data[section].table[key]

\* C21: load_config either returns a configuration in which every section
\* holds every default key, with the file's value where the file gives one
\* and the default otherwise, or raises ValueError and returns nothing; it
\* raises for an unsupported compression algorithm, a negative smoothing_k, an
\* unknown tokenization method and a fallback flag that is no boolean; and
\* DEFAULT_CONFIG is never modified.
C21_LoadConfigMergesOrRaisesValueError ==
  (call.fn = "load_config") =>
     /\ default_config = DEFAULT_CONFIG
     /\ pc = "raised" => (err \in ConfigValueErrors /\ ret = <<>>)
     /\ pc = "returned" =>
          /\ \A section \in DOMAIN DEFAULT_CONFIG :
             \A key \in DOMAIN DEFAULT_CONFIG[section] :
                /\ key \in DOMAIN ret[section]
                /\ ret[section][key] = IF FileGives(section, key)
                                       THEN FileValue(section, key)
                                       ELSE DEFAULT_CONFIG[section][key]
          /\ ret.compression.algorithm.text \in SUPPORTED_COMPRESSION_ALGOS
          /\ Tenths(ret.reference.smoothing_k) >= 0
          /\ ret.tokenization.method.text \in {"legacy", "tiktoken"}
          /\ ret.tokenization.fallback_to_legacy_if_tiktoken_missing.type = "bool"
     /\ Terminal =>
          /\ (FileGives("compression", "algorithm")
                /\ FileValue("compression", "algorithm") = TomlStr("snappy")) => pc = "raised"
          /\ (FileGives("reference", "smoothing_k")
                /\ Tenths(FileValue("reference", "smoothing_k")) < 0) => pc = "raised"
          /\ (FileGives("tokenization", "method")
                /\ FileValue("tokenization", "method") = TomlStr("unknown")) => pc = "raised"
          /\ (FileGives("tokenization", "fallback_to_legacy_if_tiktoken_missing")
                /\ FileValue("tokenization", "fallback_to_legacy_if_tiktoken_missing").type # "bool")
               => pc = "raised"
\* C22: in the single-analysis CLI, --human-only is accepted exactly when
\* --mode is absent or diff and --reference is absent or paisa, and then the
\* mode is diff and the reference paisa; with --mode raw or --reference
\* synthetic it aborts.  Without --human-only nothing aborts, an absent mode
\* is raw, an absent reference is paisa, and a given one is kept.
C22_HumanOnlyForcesDiffPaisa ==
  (call.fn = "main" /\ pc # "call") =>
     IF call.human_only
     THEN IF call.mode = Some("raw") \/ call.reference = Some("synthetic")
          THEN pc = "raised" /\ err \in {ErrHumanOnlyMode, ErrHumanOnlyReference}
          ELSE pc # "raised" /\ ret.mode = "diff" /\ ret.reference = "paisa"
     ELSE /\ pc # "raised"
          /\ ret.mode = (IF call.mode = None THEN "raw" ELSE call.mode[1])
          /\ ret.reference = (IF call.reference = None THEN "paisa" ELSE call.reference[1])
C22_Witness ==
  /\ call.fn = "main"
  /\ call.human_only
  /\ call.mode = None
  /\ call.reference = None
  /\ pc = "analysis"
  /\ ret.mode = "diff"
  /\ ret.output = "single_human_only_paisa"
AnalyzerCall == call.fn \in {"analyze_tokens", "analyze_tokens_batch"}

\* C23: every window is a run of consecutive tokens of the input, in their
\* order, and the windows follow each other in the order of their starts;
\* with len(tokens) >= window_size every window has exactly window_size
\* tokens, so the tokens after the last full window make no partial window;
\* with 0 < len(tokens) < window_size the one window holds all the tokens.
C23_WindowsAreSlices ==
  (AnalyzerCall /\ ValidWindowing /\ pc # "call") =>
    LET L == Len(call.tokens)
        Starts(i) == {start \in 0..L :
                        /\ start + Len(windows[i]) <= L
                        /\ windows[i] = SubSeq(call.tokens, start + 1,
                                               start + Len(windows[i]))}
    IN /\ \A i \in 1..Len(windows) : windows[i] # <<>> /\ Starts(i) # {}
       /\ \A i \in 1..(Len(windows) - 1) :
            \E a \in Starts(i) : \E b \in Starts(i + 1) : a < b
       /\ L >= call.window_size =>
            \A i \in 1..Len(windows) : Len(windows[i]) = call.window_size
       /\ (0 < L /\ L < call.window_size) => windows = <<call.tokens>>
\* one full window, and two tokens after it that are in no window
C23_Witness ==
  /\ AnalyzerCall /\ pc = "loop"
  /\ Len(call.tokens) = 4 /\ call.window_size = 2 /\ call.step = 3
  /\ windows = <<SubSeq(call.tokens, 1, 2)>>

\* C24: the records of analyze_tokens carry the window_id values 0, 1, ...
\* in the order they are emitted, whatever the tokens and the reference
\* table, and a call that returns has emitted one record per window; the
\* same holds of every list of the batch.
C24_WindowIdIsThePosition ==
  AnalyzerCall =>
    /\ \A i \in 1..Len(results) : results[i].window_id = i - 1
    /\ (call.fn = "analyze_tokens" /\ pc = "returned") => Len(results) = Len(windows)
    /\ \A k \in 1..Len(by_ref) :
         /\ \A i \in 1..Len(by_ref[k][2]) : by_ref[k][2][i].window_id = i - 1
         /\ Len(by_ref[k][2]) = Len(windows)
C24_Witness ==
  /\ call.fn = "analyze_tokens" /\ pc = "returned"
  /\ Len(results) = 3
  /\ results[3].window_id = 2
  /\ call.mode = "diff"
\* the probability (as lg) the claim gives token i of the call: the table's
\* value if the token is in the table, unknown_prob if not, clipped into
\* [EPSILON, 1]; negated, it is the surprisal in hundredths of a bit
ClaimedBits(i) ==
  LET p == IF call.tokens[i] \in DOMAIN call.ref_dict
           THEN call.ref_dict[call.tokens[i]] ELSE call.unknown_prob
  IN IF p < EPSILON THEN -EPSILON ELSE IF p > ONE THEN -ONE ELSE -p
RECURSIVE SumTo(_, _)
SumTo(f, n) == IF n = 0 THEN 0 ELSE f[n] + SumTo(f, n - 1)

\* C25: with a valid log base, surprisal_stats_from_ref returns the mean and
\* the population variance of one series, -log_b of each token's
\* probability, the probability being the table's value for a token of the
\* table and unknown_prob for any other, clipped into [1e-10, 1]; the
\* variance is E[x^2] - E[x]^2 of that same series; an empty window gives
\* (0.0, 0.0).
C25_SurprisalStatsOfClippedSeries ==
  (call.fn = "surprisal_stats_from_ref" /\ pc # "call"
     /\ validate_log_base(call.log_base) = "none") =>
    LET n == Len(call.tokens)
        bits == [i \in 1..n |-> ClaimedBits(i)]
        squares == [i \in 1..n |-> ClaimedBits(i) * ClaimedBits(i)]
        unit == MathLog(call.log_base)
    IN /\ pc = "returned"
       /\ n = 0 => ret = <<Zero, Zero>>
       /\ n > 0 =>
            /\ ret[1] = Rat(SumTo(bits, n), n * unit)
            /\ ret[2] = Rat(n * SumTo(squares, n) - SumTo(bits, n) * SumTo(bits, n),
                            n * n * unit * unit)
\* a window with a token of the table and a token outside it, which gets
\* an unknown_prob other than the default: bits 1, 5, 1 in base 2
C25_Witness ==
  /\ call.fn = "surprisal_stats_from_ref" /\ pc = "returned"
  /\ call.tokens = <<"a", "b", "a">>
  /\ call.ref_dict = RefPaisa
  /\ call.unknown_prob = -500
  /\ call.log_base = 200
  /\ ret[1] = Rat(700, 300)
  /\ ret[2] # Zero

\* C27: calculate_surprisal returns, for any token, table, log base and
\* unknown_prob, the mean that surprisal_stats_from_ref returns for the
\* window of that one token.
C27_SingleTokenAgreesWithWindow ==
  (call.fn = "calculate_surprisal" /\ pc = "returned") =>
    ret = surprisal_stats_from_ref(call.tokens, call.ref_dict, call.log_base,
                                   call.unknown_prob).val[1]
\* analyze_tokens called by itself, segmenting the tokens of the call
AnalyzedAlone(mode, ref_dict) ==
  analyze_tokens(call.tokens, mode, call.window_size, call.step, ref_dict,
                 call.log_base, call.compression, call.unknown_prob, None)

\* C26: for valid parameters, the list the batch returns under a reference's
\* name in diff mode is the list analyze_tokens returns in diff mode for
\* that reference alone, with the same tokens, window_size, step, log_base,
\* compression and unknown_prob; in raw mode the batch returns, under the
\* key 'raw', the list analyze_tokens returns in raw mode.
C26_BatchEqualsSingle ==
  (call.fn = "analyze_tokens_batch" /\ Terminal /\ ValidWindowing
     /\ validate_log_base(call.log_base) = "none"
     /\ call.compression \in SUPPORTED_COMPRESSION_ALGOS) =>
    /\ (call.mode = "diff" /\ call.ref_dicts # <<>>) =>
         /\ pc = "returned"
         /\ Len(by_ref) = Len(call.ref_dicts)
         /\ \A k \in 1..Len(by_ref) :
              /\ by_ref[k][1] = call.ref_dicts[k][1]
              /\ by_ref[k][2] = AnalyzedAlone("diff", Some(call.ref_dicts[k][2])).val
    /\ call.mode = "raw" =>
         /\ pc = "returned"
         /\ by_ref = <<<<"raw", AnalyzedAlone("raw", None).val>>>>
C26_Witness ==
  /\ call.fn = "analyze_tokens_batch" /\ pc = "returned" /\ call.mode = "diff"
  /\ Len(by_ref) = 3
  /\ call.step = 2
  /\ Len(by_ref[3][2]) = 2
  /\ by_ref[3][2][2].mean_entropy # by_ref[3][2][1].mean_entropy
\* the attempts made for the entry at a position, the failure lines logged
\* for it, and whether its article or its metadata row has been written
AttemptsFor(position) == {i \in 1..Len(requests) : requests[i].entry = position}
FailureLinesFor(position) == {i \in 1..Len(fail_log) : fail_log[i] = position}
Stored(position) ==
  \E i \in 1..Len(disk) :
     disk[i] \in {WriteFile(article_path(position)), UpsertMetadataRow(position)}
\* what the claim says of one entry, at any point of the run
FetchedAsClaimed(position) ==
  /\ Cardinality(AttemptsFor(position)) <= call.retries
  /\ \A i \in AttemptsFor(position) :
       requests[i].ok => \A j \in AttemptsFor(position) : j <= i
  /\ Stored(position) => Succeeded(position) # {}
  /\ Cardinality(FailureLinesFor(position)) <= 1
  /\ Succeeded(position) # {} => FailureLinesFor(position) = {}
  /\ (position <= index /\ call.urls[position].url /\ Succeeded(position) = {})
       => Cardinality(FailureLinesFor(position)) = 1

\* C28 (as claimed): for every URL entry at most --retries attempts are
\* made and none after a success; its article and metadata row are written
\* only if an attempt succeeded; an entry done with and without a successful
\* attempt has exactly one failure line; and the loop goes through every
\* entry before it ends.
C28_AttemptsStopAndFailuresLogged ==
  (call.fn = "fetch_main") =>
     /\ \A position \in 1..Len(call.urls) : FetchedAsClaimed(position)
     /\ pc = "returned" => index = Len(call.urls)

\* C28 (amended): the same, for --retries >= 1.  With --retries 0 no attempt
\* is made, no failure is logged, and the empty text of the article that was
\* never downloaded is written if --min-words is 0.
C28_AttemptsStopAndFailuresLoggedWithRetries ==
  (call.fn = "fetch_main" /\ call.retries >= 1) =>
     /\ \A position \in 1..Len(call.urls) : FetchedAsClaimed(position)
     /\ pc = "returned" => index = Len(call.urls)
\* the first entry fails at both attempts and is logged; the run goes on to
\* the second, which succeeds at its second attempt and is written
C28_Witness ==
  /\ call.fn = "fetch_main" /\ pc = "returned"
  /\ call.retries = 2
  /\ requests = <<[entry |-> 1, ok |-> FALSE], [entry |-> 1, ok |-> FALSE],
                  [entry |-> 2, ok |-> FALSE], [entry |-> 2, ok |-> TRUE]>>
  /\ fail_log = <<1>>
  /\ disk = <<WriteFile(article_path(2)), UpsertMetadataRow(2)>>

\* C29: in the shadow-dataset generator every selected human file ends in
\* exactly one outcome, so the four counters add up to the number of files
\* the loop has finished (all the selected files once it is over), and an AI
\* file that exists with content is written only under --overwrite-existing.
ShadowCall == call.fn = "shadow_main"
AiFileWritten(position) == PositionsOf(ai_file(position)) # {}
CountersTotal ==
  summary.generated + summary.skipped_existing + summary.skipped_empty_human
    + summary.failed
C29_OneOutcomePerFile ==
  ShadowCall =>
    /\ CountersTotal = index
    /\ pc = "returned" => CountersTotal = Len(call.human_files)
    /\ \A position \in 1..Len(call.human_files) :
         (AiFileWritten(position) /\ call.human_files[position].ai_non_empty)
           => call.overwrite_existing

\* two files are done, one generated over an AI file that had content and one
\* skipped because its AI file had content
C29_Witness ==
  /\ ShadowCall
  /\ pc = "returned"
  /\ Len(call.human_files) = 2
  /\ summary.generated >= 1
  /\ summary.failed + summary.skipped_empty_human >= 1
  /\ \E position \in 1..2 :
       AiFileWritten(position) /\ call.human_files[position].ai_non_empty

\* C30: the generator issues at most two requests for a file, the first with
\* the temperature and the second, without it, only after the first failed
\* with a temperature-unsupported error; a file whose request failed
\* otherwise, whose retry failed or whose response had no text has one line
\* in the failure log and no AI file, and the loop goes on to the next file;
\* a dry run issues no request and writes no AI file.
RequestsFor(position) ==
  SelectSeq(requests, LAMBDA request : request.file = position)
FailuresFor(position) ==
  Cardinality({i \in 1..Len(fail_log) : fail_log[i] = position})
FailedAt(position) ==
  LET issued == RequestsFor(position)
  IN /\ issued # <<>>
     /\ issued[Len(issued)].outcome # "text"
RequestsAsClaimed(position) ==
  LET issued == RequestsFor(position)
  IN /\ Len(issued) <= 2
     /\ Len(issued) >= 1 => issued[1].include_temperature
     /\ Len(issued) = 2 =>
          /\ issued[1].outcome = "temperature_unsupported"
          /\ ~issued[2].include_temperature
     /\ (position <= index /\ FailedAt(position)) =>
          /\ FailuresFor(position) = 1
          /\ ~AiFileWritten(position)
     /\ (position <= index /\ ~FailedAt(position)) => FailuresFor(position) = 0
C30_AtMostTwoRequests ==
  ShadowCall =>
    /\ \A position \in 1..Len(call.human_files) : RequestsAsClaimed(position)
    /\ pc = "returned" => index = Len(call.human_files)
    /\ call.dry_run => (requests = <<>> /\ disk = <<>>)

\* the first file failed on its retry and the loop went on to the second,
\* which was generated by a request without the temperature
C30_Witness ==
  /\ ShadowCall
  /\ pc = "returned"
  /\ Len(call.human_files) = 2
  /\ Len(RequestsFor(1)) = 2
  /\ FailedAt(1)
  /\ FailuresFor(1) = 1
  /\ Len(RequestsFor(2)) = 2
  /\ AiFileWritten(2)
====
